---- MODULE Spec2Model ----
(***************************************************************************)
(* Model of the adaptive scraping pipeline of backend/scraper:             *)
(*   scrape_url      (scraper.py)  the fallback ladder                     *)
(*   validate_url, check_robots_txt, needs_js_rendering (utils.py)         *)
(*   scrape_static   (static.py)   one HTTP GET + classifier + parser      *)
(*   scrape_dynamic  (dynamic.py)  the browser session, step by step       *)
(* Strings are sequences of one-character strings.  Everything the network *)
(* or the browser answers is drawn nondeterministically.                   *)
(***************************************************************************)
EXTENDS Integers, Sequences, FiniteSets, TLC

VARIABLES
    url,                  \* scrape_url argument
    enable_interactions,  \* scrape_url argument
    interaction_strategy, \* scrape_url argument
    pc,                   \* position inside scrape_url / scrape_dynamic
    is_allowed,           \* scrape_url local (verdict of the robots gate)
    errors,               \* scrape_url local `errors`
    static_result,        \* scrape_url local
    needs_js,             \* scrape_url local
    static_errors,        \* scrape_static local `errors` when it returned
    static_html,          \* scrape_static local `html` (None: nothing fetched)
    dynamic_result,       \* scrape_url local
    dyn_enable,           \* scrape_dynamic parameter enable_interactions
    dyn_strategy,         \* scrape_dynamic parameter interaction_strategy
    dyn_errors,           \* scrape_dynamic local `errors`
    browser,              \* scrape_dynamic local `browser`
    session,              \* the browser process: "none", "held" or "released"
    page_url,             \* page.url of the browser page
    pages_visited,        \* scrape_dynamic local
    interaction_results,  \* scrape_dynamic local
    html,                 \* scrape_dynamic local (captured markup)
    nav,                  \* how page.goto ended in this invocation
    caught,               \* step whose exception scrape_dynamic's handler caught
    exc,                  \* an exception is propagating inside scrape_url's try
    calls,                \* log of the external operations performed
    result,               \* value scrape_url returned (None while running)
    raised,               \* scrape_url let an exception escape to its caller
    arg,                  \* argument of a function called on its own
    ret,                  \* what that function returned (None before the call)
    hi,                   \* handle_interactions: strategy and its four locals
    sub,                  \* locals of the try_* function that is running
    ipc,                  \* position inside handle_interactions
    in_fallback,          \* running the 'auto' fallback block (line 259-277)
    cur_url,              \* page.url during handle_interactions
    runs,                 \* the try_* functions called so far, in order
    lm_seen,              \* what the load-more control did so far, in short
    acts,                 \* browser actions performed, per kind
    faults,               \* browser calls that raised so far
    frames                \* locals of the scrape_url coroutines run side by side

vars == << url, enable_interactions, interaction_strategy, pc, is_allowed,
           errors, static_result, needs_js, static_errors, static_html,
           dynamic_result, dyn_enable, dyn_strategy, dyn_errors, browser,
           session, page_url, pages_visited, interaction_results, html, nav, caught,
           exc, calls, result, raised, arg, ret, hi, sub, ipc, in_fallback,
           cur_url, runs, lm_seen, acts, faults, frames >>

\* Python None, for an Optional object and for an Optional[str]
None == [none |-> TRUE]
NoneStr == "None"

\* ------------------------------------------------------------------------
\* Bounds of the model
\* ------------------------------------------------------------------------
MaxSections == 2      \* sections the parser yields for one markup
MaxPad == 1           \* extra characters beyond the URL length limit

\* ------------------------------------------------------------------------
\* Program constants
\* ------------------------------------------------------------------------
MAX_URL_LENGTH == 2048
MIN_CONTENT_LENGTH == 500
MIN_SEMANTIC_CONTENT_LENGTH == 2000
MAX_SCRIPT_COUNT_THRESHOLD == 20

Strategies == {"auto", "tabs", "load_more", "scroll", "pagination", "all"}

\* ------------------------------------------------------------------------
\* Strings
\* ------------------------------------------------------------------------
SetMin(S) == CHOOSE x \in S : \A y \in S : x <= y

IsSpace(c) == c \in {" ", "\t", "\n"}

\* str.lstrip() and str.rstrip(), as the index of the first and of the last
\* character kept
RECURSIVE FirstKept(_, _)
FirstKept(s, i) ==
    IF i > Len(s) \/ ~IsSpace(s[i]) THEN i ELSE FirstKept(s, i + 1)
RECURSIVE LastKept(_, _)
LastKept(s, i) ==
    IF i < 1 \/ ~IsSpace(s[i]) THEN i ELSE LastKept(s, i - 1)

StripMutantLeft(s) == SubSeq(s, FirstKept(s, 1), Len(s))

\* str.strip()
Strip(s) == SubSeq(s, FirstKept(s, 1), LastKept(s, Len(s)))

\* str.startswith(prefix)
StartsWith(s, p) == Len(s) >= Len(p) /\ SubSeq(s, 1, Len(p)) = p

Pad(n) == [i \in 1..n |-> "x"]

HTTP == <<"h", "t", "t", "p", ":", "/", "/">>
HTTPS == <<"h", "t", "t", "p", "s", ":", "/", "/">>

\* urllib.parse.urlparse(url).netloc for a url that starts with a scheme and
\* "//": the characters up to the first of "/", "?", "#".  An unbalanced
\* bracket in the authority makes urlparse raise ValueError.
UrlParse(s) ==
    LET start == IF StartsWith(s, HTTPS) THEN Len(HTTPS) + 1
                 ELSE IF StartsWith(s, HTTP) THEN Len(HTTP) + 1 ELSE 1
        stops == {i \in start..Len(s) : s[i] \in {"/", "?", "#"}}
        stop == IF stops = {} THEN Len(s) + 1 ELSE SetMin(stops)
        netloc == IF start = 1 THEN <<>> ELSE SubSeq(s, start, stop - 1)
        open == \E i \in 1..Len(netloc) : netloc[i] = "["
        close == \E i \in 1..Len(netloc) : netloc[i] = "]"
    IN  [netloc |-> netloc, raises |-> (open /\ ~close) \/ (close /\ ~open)]

\* utils.validate_url
validate_url(u) ==
    IF u = <<>> \/ Strip(u) = <<>> THEN [ok |-> FALSE, msg |-> "required"]
    ELSE LET s == Strip(u) IN
         IF Len(s) > MAX_URL_LENGTH THEN [ok |-> FALSE, msg |-> "too_long"]
         ELSE IF ~(StartsWith(s, HTTP) \/ StartsWith(s, HTTPS))
              THEN [ok |-> FALSE, msg |-> "scheme"]
         ELSE IF UrlParse(s).raises THEN [ok |-> FALSE, msg |-> "invalid_url"]
         ELSE IF UrlParse(s).netloc # <<>> THEN [ok |-> TRUE, msg |-> ""]
         ELSE [ok |-> FALSE, msg |-> "invalid_format"]

\* The URLs a request may carry.
Urls ==
    { <<>>,
      <<" ", " ">>,
      HTTP \o <<"a">>,
      <<" ">> \o HTTPS \o <<"a", "/", "p">> \o <<" ">>,
      <<"f", "t", "p", ":", "/", "/", "a">>,
      HTTP,
      HTTP \o <<"/", "p">>,
      HTTP \o <<"[", "a">> }
    \cup { HTTP \o <<"a", "/">> \o Pad(MAX_URL_LENGTH - 9 + k) : k \in 1..MaxPad }

RedirectUrl == HTTPS \o <<"r">>
BlankUrl == <<"a", "b", "o", "u", "t", ":", "b", "l", "a", "n", "k">>

\* ------------------------------------------------------------------------
\* Result objects (models.py)
\* ------------------------------------------------------------------------
\* models.ScrapeError
ScrapeError(message, phase) == [message |-> message, phase |-> phase]

\* models.Interactions
Interactions(clicks, scrolls, pages) ==
    [clicks |-> clicks, scrolls |-> scrolls, pages |-> pages]

\* models.ScrapeResult
ScrapeResult(u, meta, sections, interactions, errs) ==
    [url |-> u, meta |-> meta, sections |-> sections,
     interactions |-> interactions, errors |-> errs]

\* scraper._error_result
ErrorResult(u, errs) ==
    ScrapeResult(u, [title |-> "Error", strategy |-> NoneStr], <<>>,
                 Interactions(<<>>, 0, <<>>), errs)

Phases(errs) == {errs[i].phase : i \in 1..Len(errs)}
CountPhase(errs, ph) == Cardinality({i \in 1..Len(errs) : errs[i].phase = ph})

\* ------------------------------------------------------------------------
\* Render necessity classifier (utils.needs_js_rendering)
\* ------------------------------------------------------------------------
\* What the classifier reads off a markup: spa = a framework root marker is
\* present, jsMsg = an "enable JavaScript" phrase is present, scripts = number
\* of <script> tags, bundles = a script src with a bundler name, content =
\* length of the visible text, size = len(html), main = a main/article
\* landmark is present.
Markup(id, spa, jsMsg, scripts, bundles, content, size, main) ==
    [id |-> id, spa |-> spa, jsMsg |-> jsMsg, scripts |-> scripts,
     bundles |-> bundles, content |-> content, size |-> size, main |-> main]

\* The markups the origin server may answer with.
Pages ==
    { Markup("plain", FALSE, FALSE, 1, FALSE, 3000, 3200, TRUE),
      Markup("next", TRUE, FALSE, 1, FALSE, 3000, 3200, TRUE),
      Markup("thin", FALSE, FALSE, 1, FALSE, 100, 400, TRUE),
      Markup("nomain", FALSE, FALSE, 1, FALSE, 3000, 3200, FALSE),
      Markup("scripts", FALSE, FALSE, 25, FALSE, 1500, 9000, TRUE) }

SpaRootMutantIgnored(m) == FALSE

\* utils.py line 106-119
SpaRoot(m) == m.spa

\* utils.needs_js_rendering
needs_js_rendering(m) ==
    IF SpaRoot(m) THEN TRUE
    ELSE IF m.jsMsg THEN TRUE
    ELSE IF m.content < MIN_CONTENT_LENGTH THEN TRUE
    ELSE IF ~m.main THEN TRUE
    ELSE IF m.bundles /\ m.scripts > 10 /\ m.content * 100 < 3 * m.size THEN TRUE
    ELSE IF m.scripts > 30 /\ m.content * 100 < 5 * m.size THEN TRUE
    ELSE IF m.scripts > MAX_SCRIPT_COUNT_THRESHOLD
            /\ m.content < MIN_SEMANTIC_CONTENT_LENGTH THEN TRUE
    ELSE FALSE

\* ------------------------------------------------------------------------
\* Robots gate (utils.check_robots_txt)
\* ------------------------------------------------------------------------
\* What the request for robots.txt may end in: a response with a status
\* (for 200, can_fetch is RobotFileParser's verdict on the body), a client
\* timeout, or any other error while fetching or parsing.
RobotsResponses ==
    { [kind |-> "status", status |-> 404, can_fetch |-> TRUE],
      [kind |-> "status", status |-> 500, can_fetch |-> TRUE],
      [kind |-> "status", status |-> 200, can_fetch |-> TRUE],
      [kind |-> "status", status |-> 200, can_fetch |-> FALSE],
      [kind |-> "timeout", status |-> 0, can_fetch |-> TRUE],
      [kind |-> "error", status |-> 0, can_fetch |-> TRUE] }

Verdict(allowed, msg, sent, raises) ==
    [allowed |-> allowed, msg |-> msg, sent |-> sent, raises |-> raises]

RobotsTimeoutMutantRaise == Verdict(TRUE, "", TRUE, TRUE)

\* utils.py line 59-60
RobotsTimeout == Verdict(TRUE, "timeout", TRUE, FALSE)

\* utils.py line 54-55
RobotsDisallow == Verdict(FALSE, "disallowed", TRUE, FALSE)

RobotsBadStatusMutantBlock == Verdict(FALSE, "bad_status", TRUE, FALSE)

\* utils.py line 40-45
RobotsBadStatus == Verdict(TRUE, "bad_status", TRUE, FALSE)

\* utils.check_robots_txt
check_robots_txt(u, resp) ==
    IF UrlParse(u).raises THEN Verdict(TRUE, "url_error", FALSE, FALSE)
    ELSE IF resp.kind = "timeout" THEN RobotsTimeout
    ELSE IF resp.kind = "error" THEN Verdict(TRUE, "error", TRUE, FALSE)
    ELSE IF resp.status = 404 THEN Verdict(TRUE, "no_robots", TRUE, FALSE)
    ELSE IF resp.status # 200 THEN RobotsBadStatus
    ELSE IF ~resp.can_fetch THEN RobotsDisallow
    ELSE Verdict(TRUE, "allows", TRUE, FALSE)

\* ------------------------------------------------------------------------
\* Parser and metadata, as seen by the fetchers
\* ------------------------------------------------------------------------
\* parser.extract_meta: title of the markup, strategy as passed in
extract_meta(m, strategy) == [title |-> m.id, strategy |-> strategy]

\* parser.parse_html yields n sections for markup m; each carries the url it
\* was parsed for and (standing for its content) the markup it came from.
parse_html(m, u, n) ==
    [k \in 1..n |-> [id |-> <<"section", k - 1>>, sourceUrl |-> u, markup |-> m.id]]

\* ------------------------------------------------------------------------
\* Static fetcher (static.scrape_static)
\* ------------------------------------------------------------------------
FetchOutcomes == {"ok", "timeout", "http_error", "error"}
\* where an exception is raised after the markup arrived
ParseFaults == {"none", "classifier", "parser"}

StaticReturn(res, js, errs) ==
    [result |-> res, needs_js |-> js, errors |-> errs, raises |-> FALSE]

StaticOnTimeoutMutantNoJs ==
    StaticReturn(None, FALSE, <<ScrapeError("timeout", "static")>>)

\* static.py line 32-38
StaticOnTimeout ==
    StaticReturn(None, TRUE, <<ScrapeError("timeout", "static")>>)

StaticOnHttpErrorMutantRender ==
    StaticReturn(None, TRUE, <<ScrapeError("http_status", "static")>>)

\* static.py line 39-46
StaticOnHttpError ==
    StaticReturn(None, FALSE, <<ScrapeError("http_status", "static")>>)

\* static.py line 47-51
StaticOnError ==
    StaticReturn(None, FALSE, <<ScrapeError("request_error", "static")>>)

\* static.py line 53-80
StaticParse(m, final_url, fault, n) ==
    IF fault # "none"
    THEN StaticReturn(None, FALSE, <<ScrapeError("parsing_error", "parsing")>>)
    ELSE IF needs_js_rendering(m) THEN StaticReturn(None, TRUE, <<>>)
    ELSE StaticReturn(
            ScrapeResult(final_url, extract_meta(m, "static"),
                         parse_html(m, final_url, n),
                         Interactions(<<>>, 0, <<final_url>>), <<>>),
            FALSE, <<>>)

scrape_static(fetch, m, final_url, fault, n) ==
    IF fetch = "timeout" THEN StaticOnTimeout
    ELSE IF fetch = "http_error" THEN StaticOnHttpError
    ELSE IF fetch = "error" THEN StaticOnError
    ELSE StaticParse(m, final_url, fault, n)

\* ------------------------------------------------------------------------
\* Dynamic renderer (dynamic.scrape_dynamic), pieces
\* ------------------------------------------------------------------------
LaunchOutcomes == {"ok", "no_browser", "no_page"}
GotoOutcomes == {"ok", "not_ok", "timeout", "error"}
WaitOutcomes == {"ok", "timeout", "error"}
CaptureOutcomes == {"ok", "content_error", "close_error"}

\* Markups the browser may hand back: the final page and page snapshots.
Rendered == Markup("rendered", TRUE, FALSE, 12, TRUE, 4000, 90000, TRUE)
SnapshotIds == <<"snapshot0", "snapshot1">>
Snapshot(i) == Markup(SnapshotIds[i + 1], TRUE, FALSE, 12, TRUE, 4000, 90000, TRUE)
NextPageUrl == HTTPS \o <<"a", "/", "2">>

\* What handle_interactions may return for a page at url u under a strategy
\* (interactions.py line 283-288): nothing found; clicks recorded; scrolls
\* performed; pagination that captured the first page only; pagination that
\* followed one "next" link.
InteractionOutcomes(u, strategy) ==
    { [clicks |-> <<>>, scrolls |-> 0, pages |-> <<u>>, html_contents |-> <<>>,
       last |-> u] }
    \cup (IF strategy \in {"auto", "tabs", "load_more", "all"}
          THEN { [clicks |-> <<"click">>, scrolls |-> 0, pages |-> <<u>>,
                  html_contents |-> <<>>, last |-> u] }
          ELSE {})
    \cup (IF strategy \in {"auto", "scroll", "all"}
          THEN { [clicks |-> <<>>, scrolls |-> 1, pages |-> <<u>>,
                  html_contents |-> <<>>, last |-> u] }
          ELSE {})
    \cup (IF strategy \in {"auto", "pagination", "all"}
          THEN { [clicks |-> <<>>, scrolls |-> 0, pages |-> <<u>>,
                  html_contents |-> <<Snapshot(0)>>, last |-> u],
                 [clicks |-> <<>>, scrolls |-> 0, pages |-> <<u, NextPageUrl>>,
                  html_contents |-> <<Snapshot(0), Snapshot(1)>>,
                  last |-> NextPageUrl] }
          ELSE {})

\* the empty dict of dynamic.py line 100
NoInteractions == [none |-> TRUE]

\* interaction_results.get(key, default)
Get(res, key, default) == IF res = NoInteractions THEN default ELSE res[key]

GotoTimeoutMutantAbort(errs) ==
    [errors |-> errs, continue |-> FALSE]

\* dynamic.py line 72-79
GotoTimeout(errs) ==
    [errors |-> Append(errs, ScrapeError("load_timeout", "dynamic")),
     continue |-> TRUE]

\* dynamic.py line 64-70
GotoNotOk(errs) ==
    [errors |-> Append(errs, ScrapeError("load_failed", "dynamic")),
     continue |-> TRUE]

PlaywrightExitMutantLeak(s) == s

\* dynamic.py line 50: control leaves the `async with async_playwright()`
\* block, normally or by an exception; stopping Playwright ends every browser
\* launched under it.
PlaywrightExit(s) == IF s = "held" THEN "released" ELSE s

\* dynamic.py line 110: browser.close() returned
BrowserClose(s) == IF s = "held" THEN "released" ELSE s

\* dynamic.py line 150-154: the handler closes the browser when the local is
\* set; closed tells whether that close() returned or raised (passed over)
HandlerClose(b, s, closed) ==
    IF b # NoneStr /\ closed THEN BrowserClose(s) ELSE s

\* dynamic.py line 113-126: the sections of the result
RECURSIVE SnapshotSections(_, _, _, _, _)
SnapshotSections(html_contents, visited, final_url, n, i) ==
    IF i >= Len(html_contents) THEN <<>>
    ELSE LET page_html == html_contents[i + 1]
             u == IF i < Len(visited) THEN visited[i + 1] ELSE final_url
             secs == parse_html(page_html, u, n)
         IN  [k \in 1..n |-> [secs[k] EXCEPT !.id = secs[k].id \o <<"p", i>>]]
             \o SnapshotSections(html_contents, visited, final_url, n, i + 1)

DynamicSections(enable, html_contents, visited, page_html, final_url, n) ==
    IF enable /\ html_contents # <<>>
    THEN SnapshotSections(html_contents, visited, final_url, n, 0)
    ELSE parse_html(page_html, final_url, n)

\* dynamic.py line 128-142
DynamicResult(enable, res, visited, page_html, final_url, errs, n) ==
    ScrapeResult(final_url, extract_meta(page_html, "js"),
                 DynamicSections(enable, Get(res, "html_contents", <<>>),
                                 visited, page_html, final_url, n),
                 Interactions(Get(res, "clicks", <<>>), Get(res, "scrolls", 0),
                              visited),
                 errs)

\* ------------------------------------------------------------------------
\* Orchestrator (scraper.scrape_url), pieces
\* ------------------------------------------------------------------------
\* what one step of scrape_url decides: return a value, or go on
Return(r) == [returns |-> TRUE, value |-> r]
GoOn == [returns |-> FALSE, value |-> None]

\* scraper.py line 79-87
OrchestrationHandler(u, errs) ==
    ErrorResult(u, Append(errs, ScrapeError("unexpected", "orchestration")))

RobotsGateMutantIgnore(u, v) == GoOn

\* scraper.py line 44-45
RobotsGate(u, v) ==
    IF ~v.allowed
    THEN Return(ErrorResult(u, <<ScrapeError(v.msg, "validation")>>))
    ELSE GoOn

AfterDynamicMutantRetryStatic(dyn) == IF dyn = None THEN "static" ELSE "done"

\* scraper.py line 55, 74-87: whatever scrape_dynamic gave, scrape_url returns
AfterDynamicPc(dyn) == "done"

StaticGateMutantAlwaysFallback(res, js) == GoOn

\* scraper.py line 60-61
StaticGate(res, js) ==
    IF res # None /\ ~js THEN Return(res) ELSE GoOn

FallbackErrorsMutantNone(errs) == errs

\* scraper.py line 64-69
FallbackErrors(errs) ==
    Append(errs, ScrapeError("static_insufficient", "fallback"))

\* scraper.py line 70-72: enable_interactions passed to scrape_dynamic
FallbackEnable(js) == js

DirectStrategyMutantAuto(strategy) == "auto"

\* scraper.py line 52-54: interaction_strategy passed to scrape_dynamic
DirectStrategy(strategy) == strategy

\* scraper.py line 55
DirectReturn(u, dyn, errs) ==
    IF dyn # None THEN dyn ELSE ErrorResult(u, errs)

\* scraper.py line 74-77, 87
FallbackReturn(u, dyn, stat, errs) ==
    LET r == IF dyn # None THEN dyn ELSE stat
    IN  IF r # None THEN [r EXCEPT !.errors = @ \o errs]
        ELSE ErrorResult(u, errs)

\* ------------------------------------------------------------------------
\* State machine of one scrape_url invocation
\* ------------------------------------------------------------------------
Call(op, enable, strategy) == [op |-> op, enable |-> enable, strategy |-> strategy]

\* the locals of scrape_url and of its callees before the first statement
ScrapeLocals ==
    /\ is_allowed = TRUE
    /\ errors = <<>>
    /\ static_result = None
    /\ needs_js = FALSE
    /\ static_errors = <<>>
    /\ static_html = None
    /\ dynamic_result = None
    /\ dyn_enable = FALSE
    /\ dyn_strategy = "auto"
    /\ dyn_errors = <<>>
    /\ browser = NoneStr
    /\ session = "none"
    /\ page_url = BlankUrl
    /\ pages_visited = <<>>
    /\ interaction_results = NoInteractions
    /\ html = None
    /\ nav = "none"
    /\ caught = "none"
    /\ exc = FALSE
    /\ calls = <<>>
    /\ result = None
    /\ raised = FALSE

\* handle_interactions has not been called
NoInteraction ==
    /\ hi = None
    /\ sub = None
    /\ ipc = "idle"
    /\ in_fallback = FALSE
    /\ cur_url = 0
    /\ runs = <<>>
    /\ lm_seen = "untried"
    /\ acts = None
    /\ faults = 0

\* no function is being called on its own
NoCall == arg = None /\ ret = None /\ frames = <<>>

Init ==
    /\ url \in Urls
    /\ enable_interactions \in BOOLEAN
    /\ interaction_strategy \in Strategies
    /\ pc = "validate"
    /\ ScrapeLocals
    /\ NoCall
    /\ NoInteraction

\* no scrape_url invocation is running
NoScrape ==
    /\ url = BlankUrl
    /\ enable_interactions = FALSE
    /\ interaction_strategy = "auto"
    /\ pc = "idle"
    /\ ScrapeLocals

fnVars == << arg, ret, frames >>
ixVars == << hi, sub, ipc, in_fallback, cur_url, runs, lm_seen, acts, faults >>
otherVars == << fnVars, ixVars >>
dynVars == << dyn_enable, dyn_strategy, dyn_errors, browser, session, page_url,
              pages_visited, interaction_results, html, nav, caught >>
staticVars == << static_result, needs_js, static_errors, static_html >>
inputVars == << url, enable_interactions, interaction_strategy >>

\* scraper.py line 37-40
Validate ==
    /\ pc = "validate"
    /\ LET v == validate_url(url) IN
         IF ~v.ok
         THEN /\ result' = ErrorResult(url, <<ScrapeError(v.msg, "validation")>>)
              /\ pc' = "done"
         ELSE /\ pc' = "robots"
              /\ UNCHANGED result
    /\ UNCHANGED << otherVars, inputVars, is_allowed, errors, staticVars, dynamic_result,
                    dynVars, exc, calls, raised >>

\* scraper.py line 42-47: the robots gate runs outside the try block
CheckRobots ==
    /\ pc = "robots"
    /\ \E resp \in RobotsResponses :
         LET v == check_robots_txt(url, resp)
             gate == RobotsGate(url, v)
         IN  /\ calls' = IF v.sent THEN Append(calls, Call("robots_get", FALSE, ""))
                         ELSE calls
             /\ is_allowed' = v.allowed
             /\ IF v.raises
                THEN /\ raised' = TRUE
                     /\ pc' = "done"
                     /\ UNCHANGED result
                ELSE IF gate.returns
                THEN /\ result' = gate.value
                     /\ pc' = "done"
                     /\ UNCHANGED raised
                ELSE /\ pc' = IF enable_interactions THEN "call_dynamic" ELSE "static"
                     /\ UNCHANGED << result, raised >>
    /\ errors' = <<>>
    /\ UNCHANGED << otherVars, inputVars, staticVars, dynamic_result, dynVars, exc >>

\* scraper.py line 51-54
CallDynamicDirect ==
    /\ pc = "call_dynamic"
    /\ dyn_enable' = TRUE
    /\ dyn_strategy' = DirectStrategy(interaction_strategy)
    /\ calls' = Append(calls, Call("scrape_dynamic", dyn_enable', dyn_strategy'))
    /\ pc' = "dyn_launch"
    /\ UNCHANGED << otherVars, inputVars, is_allowed, errors, staticVars, dynamic_result,
                    dyn_errors, browser, session, page_url, pages_visited,
                    interaction_results, html, nav, caught, exc, result, raised >>

\* scraper.py line 58 with static.py line 16-80
ScrapeStatic ==
    /\ pc = "static"
    /\ \E fetch \in FetchOutcomes, m \in Pages, final_url \in {url, RedirectUrl},
          fault \in ParseFaults, n \in 0..MaxSections :
         LET r == scrape_static(fetch, m, final_url, fault, n) IN
           /\ static_result' = r.result
           /\ needs_js' = r.needs_js
           /\ static_errors' = r.errors
           /\ static_html' = IF fetch = "ok" THEN m ELSE None
           /\ exc' = r.raises
    /\ calls' = Append(calls, Call("static_get", FALSE, ""))
    /\ pc' = "after_static"
    /\ UNCHANGED << otherVars, inputVars, is_allowed, errors, dynamic_result, dynVars,
                    result, raised >>

\* scraper.py line 60-72 (and 79-87 when the static call raised)
AfterStatic ==
    /\ pc = "after_static"
    /\ LET gate == StaticGate(static_result, needs_js) IN
         IF exc
         THEN /\ result' = OrchestrationHandler(url, errors)
              /\ pc' = "done"
              /\ UNCHANGED << errors, dyn_enable, dyn_strategy, calls >>
         ELSE IF gate.returns
         THEN /\ result' = gate.value
              /\ pc' = "done"
              /\ UNCHANGED << errors, dyn_enable, dyn_strategy, calls >>
         ELSE /\ errors' = FallbackErrors(errors)
              /\ dyn_enable' = FallbackEnable(needs_js)
              /\ dyn_strategy' = interaction_strategy
              /\ calls' = Append(calls, Call("scrape_dynamic", dyn_enable', dyn_strategy'))
              /\ pc' = "dyn_launch"
              /\ UNCHANGED result
    /\ exc' = FALSE
    /\ UNCHANGED << otherVars, inputVars, is_allowed, staticVars, dynamic_result,
                    dyn_errors, browser, session, page_url, pages_visited,
                    interaction_results, html, nav, caught, raised >>

\* what scrape_url keeps while scrape_dynamic runs
urlFrame == << otherVars, inputVars, is_allowed, errors, staticVars, exc, result, raised >>

\* dynamic.py line 44-57
DynLaunch ==
    /\ pc = "dyn_launch"
    /\ \E o \in LaunchOutcomes :
         /\ browser' = IF o = "no_browser" THEN NoneStr ELSE "open"
         /\ session' = IF o = "no_browser" THEN session
                        ELSE IF o = "ok" THEN "held"
                        ELSE PlaywrightExit("held")
         /\ caught' = IF o = "ok" THEN caught ELSE "launch"
         /\ pc' = IF o = "ok" THEN "dyn_goto" ELSE "dyn_except"
    /\ dyn_errors' = <<>>
    /\ pages_visited' = <<>>
    /\ calls' = Append(calls, Call("browser_launch", FALSE, ""))
    /\ UNCHANGED << urlFrame, dynamic_result, dyn_enable, dyn_strategy,
                    page_url, interaction_results, html, nav >>

\* dynamic.py line 59-79
DynGoto ==
    /\ pc = "dyn_goto"
    /\ \E o \in GotoOutcomes, u \in {url, RedirectUrl, BlankUrl} :
         /\ u = BlankUrl => o \in {"timeout", "error"}
         /\ nav' = o
         /\ page_url' = u
         /\ LET e == IF o = "timeout" THEN GotoTimeout(dyn_errors)
                     ELSE IF o = "not_ok" THEN GotoNotOk(dyn_errors)
                     ELSE [errors |-> dyn_errors, continue |-> o = "ok"]
            IN  /\ dyn_errors' = e.errors
                /\ pages_visited' = IF e.continue THEN Append(pages_visited, u)
                                    ELSE pages_visited
                /\ caught' = IF e.continue THEN caught ELSE "goto"
                /\ session' = IF e.continue THEN session
                               ELSE PlaywrightExit(session)
                /\ pc' = IF e.continue THEN "dyn_wait" ELSE "dyn_except"
    /\ UNCHANGED << urlFrame, dynamic_result, dyn_enable, dyn_strategy,
                    browser, interaction_results, html, calls >>

\* dynamic.py line 81-97: waits are best effort, a timeout is passed over
DynWait ==
    /\ pc = "dyn_wait"
    /\ \E o \in WaitOutcomes :
         /\ caught' = IF o = "error" THEN "wait" ELSE caught
         /\ session' = IF o = "error" THEN PlaywrightExit(session) ELSE session
         /\ pc' = IF o = "error" THEN "dyn_except" ELSE "dyn_interact"
    /\ UNCHANGED << urlFrame, dynamic_result, dyn_enable, dyn_strategy,
                    dyn_errors, browser, page_url, pages_visited,
                    interaction_results, html, nav, calls >>

\* dynamic.py line 99-102
DynInteract ==
    /\ pc = "dyn_interact"
    /\ IF dyn_enable
       THEN \E r \in InteractionOutcomes(page_url, dyn_strategy) :
              /\ interaction_results' = [x \in {"clicks", "scrolls", "pages",
                                                "html_contents"} |-> r[x]]
              /\ page_url' = r.last
       ELSE /\ interaction_results' = NoInteractions
            /\ UNCHANGED page_url
    /\ pages_visited' = Get(interaction_results', "pages", <<page_url'>>)
    /\ pc' = "dyn_capture"
    /\ UNCHANGED << urlFrame, dynamic_result, dyn_enable, dyn_strategy,
                    dyn_errors, browser, session, html, nav, caught, calls >>

\* dynamic.py line 104-111
DynCapture ==
    /\ pc = "dyn_capture"
    /\ \E o \in CaptureOutcomes :
         /\ html' = IF o = "content_error" THEN html ELSE Rendered
         /\ browser' = IF o = "ok" THEN NoneStr ELSE browser
         /\ session' = IF o = "ok" THEN PlaywrightExit(BrowserClose(session))
                        ELSE PlaywrightExit(session)
         /\ caught' = IF o = "ok" THEN caught ELSE "capture"
         /\ pc' = IF o = "ok" THEN "dyn_parse" ELSE "dyn_except"
    /\ UNCHANGED << urlFrame, dynamic_result, dyn_enable, dyn_strategy,
                    dyn_errors, page_url, pages_visited, interaction_results,
                    nav, calls >>

\* dynamic.py line 113-142
DynParse ==
    /\ pc = "dyn_parse"
    /\ \E fault \in {"none", "parser"}, n \in 0..MaxSections :
         IF fault = "none"
         THEN /\ dynamic_result' =
                    DynamicResult(dyn_enable, interaction_results, pages_visited,
                                  html, page_url, dyn_errors, n)
              /\ pc' = "after_dynamic"
              /\ UNCHANGED caught
         ELSE /\ pc' = "dyn_except"
              /\ caught' = "parse"
              /\ UNCHANGED dynamic_result
    /\ UNCHANGED << urlFrame, dyn_enable, dyn_strategy, dyn_errors, browser,
                    session, page_url, pages_visited, interaction_results,
                    html, nav, calls >>

\* dynamic.py line 144-155
DynExcept ==
    /\ pc = "dyn_except"
    /\ dyn_errors' = Append(dyn_errors, ScrapeError("dynamic_error", "dynamic"))
    /\ dynamic_result' = None
    /\ \E closed \in BOOLEAN : session' = HandlerClose(browser, session, closed)
    /\ pc' = "after_dynamic"
    /\ UNCHANGED << urlFrame, dyn_enable, dyn_strategy, browser, page_url,
                    pages_visited, interaction_results, html, nav, caught,
                    calls >>

\* scraper.py line 55 (interactions requested) and line 74-87 (fallback)
AfterDynamic ==
    /\ pc = "after_dynamic"
    /\ result' = IF exc THEN OrchestrationHandler(url, errors)
                 ELSE IF enable_interactions
                 THEN DirectReturn(url, dynamic_result, errors)
                 ELSE FallbackReturn(url, dynamic_result, static_result, errors)
    /\ pc' = AfterDynamicPc(dynamic_result)
    /\ exc' = FALSE
    /\ UNCHANGED << otherVars, inputVars, is_allowed, errors, staticVars, dynamic_result,
                    dynVars, calls, raised >>

Next ==
    \/ Validate
    \/ CheckRobots
    \/ CallDynamicDirect
    \/ ScrapeStatic
    \/ AfterStatic
    \/ DynLaunch
    \/ DynGoto
    \/ DynWait
    \/ DynInteract
    \/ DynCapture
    \/ DynParse
    \/ DynExcept
    \/ AfterDynamic

Spec == Init /\ [][Next]_vars

\* ------------------------------------------------------------------------
\* Properties of scrape_url
\* ------------------------------------------------------------------------
\* the degenerate error result of _error_result: placeholder Meta, no sections
IsDegenerate(r) ==
    r.meta = [title |-> "Error", strategy |-> NoneStr] /\ r.sections = <<>>

Ops(op) == {i \in 1..Len(calls) : calls[i].op = op}
DynamicInvoked == Ops("scrape_dynamic") # {}
StaticInvoked == Ops("static_get") # {}
\* the static stage fetched markup and the classifier returned this verdict
ClassifierSaid(b) ==
    /\ static_html # None
    /\ static_errors = <<>>
    /\ needs_js_rendering(static_html) = b
\* steps of scrape_dynamic that come after the navigation
LaterSteps == {"wait", "capture", "parse"}

\* C1: scrape_url never lets an exception escape, it can always take its next
\* step until it has finished, and when it has finished it has returned a
\* ScrapeResult, whatever the robots check, the static fetch and the dynamic
\* render did (exceptions inside them included).
C1_AlwaysReturnsResult ==
    /\ ~raised
    /\ pc # "done" => ENABLED Next
    /\ pc = "done" =>
         /\ result # None
         /\ DOMAIN result = {"url", "meta", "sections", "interactions", "errors"}

\* C1 witness: scrape_url finished although a step of the dynamic render raised.
C1_Witness ==
    pc = "done" /\ caught = "capture" /\ result # None /\ ~raised

\* C2: every total-failure (degenerate) result scrape_url returns has a
\* non-empty errors list.
C2_TotalFailureHasErrors ==
    (pc = "done" /\ result # None /\ IsDegenerate(result)) => result.errors # <<>>

\* C3: a rejected URL ends the request with a single validation error and
\* without any network operation; a robots disallow ends it with a validation
\* error result and neither the static fetcher nor the dynamic renderer is
\* ever invoked.
C3_ValidationAndRobotsTerminal ==
    /\ ~validate_url(url).ok =>
         /\ calls = <<>>
         /\ pc \in {"validate", "done"}
         /\ pc = "done" =>
              /\ IsDegenerate(result)
              /\ Len(result.errors) = 1
              /\ result.errors[1].phase = "validation"
    /\ ~is_allowed =>
         /\ pc = "done"
         /\ ~StaticInvoked /\ ~DynamicInvoked /\ Ops("browser_launch") = {}
         /\ IsDegenerate(result)
         /\ Phases(result.errors) = {"validation"}

\* C3 witness: the robots gate reported the URL disallowed and the request ended.
C3_Witness ==
    pc = "done" /\ ~is_allowed /\ Len(calls) = 1 /\ calls[1].op = "robots_get"

\* C4: without requested interactions, when the static fetch retrieved markup,
\* the classifier flagged render-required and the dynamic render failed, the
\* result is the static result (sections from the static markup), not the
\* degenerate error result.
C4_StaticResultSurvivesDynamicFailure ==
    (/\ pc = "done"
     /\ ~enable_interactions
     /\ ClassifierSaid(TRUE)
     /\ DynamicInvoked
     /\ dynamic_result = None)
    => (/\ ~IsDegenerate(result)
        /\ result.meta.title = static_html.id)

\* C5: every static-fetch failure and every outright dynamic-render failure of
\* an invocation is among the errors of the result it returns.
C5_StageFailuresReported ==
    pc = "done" /\ result # None =>
        /\ \A i \in 1..Len(static_errors) :
              static_errors[i].phase = "static" =>
                 \E j \in 1..Len(result.errors) : result.errors[j] = static_errors[i]
        /\ (DynamicInvoked /\ dynamic_result = None) =>
              "dynamic" \in Phases(result.errors)

\* C6: without requested interactions, when the static fetch succeeded and the
\* classifier judged rendering unnecessary, scrape_url returns the static
\* result itself: strategy "static", the dynamic renderer never invoked, no
\* fallback error.
C6_StaticSufficientReturnedDirectly ==
    (~enable_interactions /\ ClassifierSaid(FALSE)) =>
        /\ ~DynamicInvoked /\ Ops("browser_launch") = {}
        /\ pc \in {"after_static", "done"}
        /\ pc = "done" =>
             /\ result = static_result
             /\ result.meta.strategy = "static"
             /\ result.meta.title = static_html.id
             /\ "fallback" \notin Phases(result.errors)

\* C6 witness: a static result with sections was returned.
C6_Witness ==
    /\ pc = "done" /\ ~enable_interactions /\ ClassifierSaid(FALSE)
    /\ result = static_result /\ Len(result.sections) = MaxSections

\* C7: with interactions requested the static fetcher is never invoked, the
\* dynamic renderer is called exactly once, with interactions enabled and the
\* requested strategy, and its result or an error result is returned.
C7_InteractionsSkipStatic ==
    enable_interactions =>
        /\ ~StaticInvoked
        /\ Cardinality(Ops("scrape_dynamic")) <= 1
        /\ \A i \in Ops("scrape_dynamic") :
              calls[i] = Call("scrape_dynamic", TRUE, interaction_strategy)
        /\ (pc = "done" /\ validate_url(url).ok /\ is_allowed) =>
              /\ Cardinality(Ops("scrape_dynamic")) = 1
              /\ Cardinality(Ops("browser_launch")) = 1
              /\ IF dynamic_result # None THEN result = dynamic_result
                 ELSE IsDegenerate(result)

\* C7 witness: a request with interactions and strategy "pagination" returned
\* the dynamic result.
C7_Witness ==
    /\ pc = "done" /\ enable_interactions /\ interaction_strategy = "pagination"
    /\ dynamic_result # None /\ result = dynamic_result

\* C8: every result returned after the static-to-dynamic fallback was taken
\* carries a ScrapeError of phase "fallback", whether the dynamic render
\* succeeded or failed.
C8_FallbackErrorRecorded ==
    (pc = "done" /\ ~enable_interactions /\ DynamicInvoked) =>
        "fallback" \in Phases(result.errors)

\* C8 witness: the fallback was taken and the dynamic render succeeded.
C8_Witness ==
    /\ pc = "done" /\ ~enable_interactions /\ DynamicInvoked
    /\ dynamic_result # None /\ Len(result.sections) > 0

\* C9: in the fallback branch the dynamic renderer is invoked with
\* interactions enabled exactly when the classifier returned true or the
\* static fetch timed out, and disabled after an HTTP error status or another
\* transport or parsing error.
C9_FallbackInteractionsFollowNeedsJs ==
    ~enable_interactions =>
        \A i \in Ops("scrape_dynamic") :
            /\ calls[i].strategy = interaction_strategy
            /\ calls[i].enable =
                  (\/ ClassifierSaid(TRUE)
                   \/ static_errors = <<ScrapeError("timeout", "static")>>)
            /\ ~calls[i].enable =
                  (\E e \in {ScrapeError("http_status", "static"),
                             ScrapeError("request_error", "static"),
                             ScrapeError("parsing_error", "parsing")} :
                      static_errors = <<e>>)

\* C9 witness: after a static timeout the renderer ran its interactions.
C9_Witness ==
    /\ ~enable_interactions /\ static_errors = <<ScrapeError("timeout", "static")>>
    /\ pc = "dyn_capture" /\ dyn_enable /\ interaction_results # NoInteractions

\* C10: when the navigation times out and no later step of the render raises,
\* a result built from the captured markup is returned, not the degenerate
\* one, with exactly one error of phase "dynamic", the recorded timeout.
C10_NavigationTimeoutContinues ==
    (nav = "timeout" /\ caught \notin LaterSteps) =>
        /\ pc # "dyn_except"
        /\ pc \in {"after_dynamic", "done"} =>
             /\ dynamic_result # None
             /\ dynamic_result.errors = <<ScrapeError("load_timeout", "dynamic")>>
        /\ pc = "done" =>
             /\ ~IsDegenerate(result)
             /\ result.meta = extract_meta(Rendered, "js")
             /\ result.sections = dynamic_result.sections
             /\ CountPhase(result.errors, "dynamic") = 1
             /\ \E j \in 1..Len(result.errors) :
                   result.errors[j] = ScrapeError("load_timeout", "dynamic")

\* C10 witness: the navigation timed out and a result with sections came back.
C10_Witness ==
    /\ pc = "done" /\ nav = "timeout" /\ result.meta.title = "rendered"
    /\ Len(result.sections) > 0


\* C11: whenever scrape_dynamic has handed control back to scrape_url, by a
\* normal return or through its exception handler, the browser it launched
\* is no longer held.
C11_BrowserReleasedOnEveryExit ==
    pc \in {"after_dynamic", "done"} => session # "held"

\* browser.close() raised at line 110, so the local was still set when the
\* handler ran, and the session is released all the same
C11_Witness ==
    /\ pc = "after_dynamic"
    /\ caught = "capture"
    /\ browser # NoneStr
    /\ session = "released"

\* C12: one scrape_url invocation fetches statically at most once, renders
\* dynamically at most once, and sends no robots or static request once the
\* dynamic renderer has been called.
C12_NoStageReentered ==
    /\ Cardinality(Ops("static_get")) <= 1
    /\ Cardinality(Ops("scrape_dynamic")) <= 1
    /\ Cardinality(Ops("browser_launch")) <= 1
    /\ \A i \in Ops("scrape_dynamic") :
         \A j \in Ops("robots_get") \cup Ops("static_get") : j < i

\* the designed fallback ran to its end: robots, static fetch, dynamic call
C12_Witness ==
    /\ pc = "done"
    /\ Ops("robots_get") # {}
    /\ StaticInvoked
    /\ DynamicInvoked
    /\ dynamic_result = None

\* ------------------------------------------------------------------------
\* validate_url called on its own
\* ------------------------------------------------------------------------
Chars(w) == CASE w = "a" -> <<"a">>
              [] w = "a/p" -> <<"a", "/", "p">>
              [] w = "a b" -> <<"a", " ", "b">>
              [] w = "[a" -> <<"[", "a">>
              [] w = "[a]" -> <<"[", "a", "]">>
              [] w = "/p" -> <<"/", "p">>
              [] w = "?q" -> <<"?", "q">>
              [] w = "#f" -> <<"#", "f">>
              [] w = "ftp://" -> <<"f", "t", "p", ":", "/", "/">>
              [] w = "http:/" -> <<"h", "t", "t", "p", ":", "/">>
              [] w = "HTTP://" -> <<"H", "T", "T", "P", ":", "/", "/">>
              [] OTHER -> <<>>

\* the scheme part and the rest of a candidate URL without outer whitespace
Schemes == {<<>>, HTTP, HTTPS, Chars("ftp://"), Chars("http:/"), Chars("HTTP://")}
Rests ==
    {Chars(w) : w \in {"", "a", "a/p", "a b", "[a", "[a]", "/p", "?q", "#f"}}
    \cup {<<"a", "/">> \o Pad(MAX_URL_LENGTH - 10 + k) : k \in 0..(MaxPad + 1)}
Blanks == {<<>>, <<" ">>, <<"\t", "\n">>}

\* the strings validate_url is called with: a core without outer whitespace,
\* with whitespace before and after it
ValidateArgs ==
    {[lead |-> l, core |-> sc \o r, trail |-> t] :
        l \in Blanks, sc \in Schemes, r \in Rests, t \in Blanks}

Text(a) == a.lead \o a.core \o a.trail

InitValidate ==
    /\ NoScrape
    /\ NoInteraction
    /\ arg \in ValidateArgs
    /\ ret = None
    /\ frames = <<>>

\* utils.py line 68-86
CallValidateUrl ==
    /\ pc = "idle"
    /\ ret = None
    /\ ret' = validate_url(Text(arg))
    /\ UNCHANGED << arg, frames, ixVars, inputVars, pc, is_allowed, errors, staticVars,
                    dynamic_result, dynVars, exc, calls, result, raised >>

NextValidate == CallValidateUrl

SpecValidate == InitValidate /\ [][NextValidate]_vars

Accepted == [ok |-> TRUE, msg |-> ""]
Rejected(r) == r # None /\ ~r.ok /\ r.msg # ""

\* the authority urlparse finds in s: what lies between "//" and the first of
\* "/", "?", "#"
Authority(s) ==
    LET from == IF StartsWith(s, HTTPS) THEN Len(HTTPS) ELSE Len(HTTP)
    IN  IF \E i \in (from + 1)..Len(s) : s[i] \in {"/", "?", "#"}
        THEN SubSeq(s, from + 1,
                    SetMin({i \in (from + 1)..Len(s) : s[i] \in {"/", "?", "#"}}) - 1)
        ELSE SubSeq(s, from + 1, Len(s))

\* the authority opens a bracket it does not close, or closes one it did not
\* open: urlparse raises ValueError
Malformed(s) ==
    LET a == Authority(s) IN
      (\E i \in 1..Len(a) : a[i] = "[") # (\E i \in 1..Len(a) : a[i] = "]")

\* the four rejection conditions of the claim, read on the string s
StatedRejection(s) ==
    \/ s = <<>>
    \/ \A i \in 1..Len(s) : IsSpace(s[i])
    \/ Len(s) > MAX_URL_LENGTH
    \/ ~(StartsWith(s, HTTP) \/ StartsWith(s, HTTPS))
    \/ (~Malformed(s) /\ Authority(s) = <<>>)

\* C13 as stated: validate_url rejects its input exactly when the input is
\* empty or whitespace-only, longer than 2048 characters, without an http://
\* or https:// prefix, or with an empty authority, and accepts with an empty
\* reason otherwise.
C13_AsStated ==
    ret # None =>
        IF StatedRejection(Text(arg)) THEN Rejected(ret) ELSE ret = Accepted

\* C13 amended: the same four conditions are read on the input without its
\* surrounding whitespace, a URL whose authority urlparse refuses is rejected
\* too, and every call returns a pair (accepted with an empty reason, or
\* rejected with a reason).
C13_ValidateUrl ==
    ret # None =>
        IF StatedRejection(arg.core) \/ Malformed(arg.core)
        THEN Rejected(ret) ELSE ret = Accepted

\* a URL with an unclosed bracket in its authority, given with whitespace
\* around it, was rejected for the bracket alone
C13_Witness ==
    /\ Rejected(ret)
    /\ arg.lead # <<>>
    /\ arg.trail # <<>>
    /\ ~StatedRejection(arg.core)
    /\ Malformed(arg.core)

\* ------------------------------------------------------------------------
\* check_robots_txt called on its own, with the robots.txt body spelled out
\* ------------------------------------------------------------------------
MaxRules == 2         \* rule lines in the group of one user agent

\* a robots.txt rule line (Allow or Disallow with a path); an empty Disallow
\* allows everything, as urllib.robotparser reads it
RuleLine(allow, path) ==
    [allow |-> allow \/ path = <<>>, path |-> path, written |-> allow]

RulePaths == {<<>>, <<"/">>, <<"/", "p">>}
RuleLines == {RuleLine(a, p) : a \in BOOLEAN, p \in RulePaths}
RuleGroups(n) == UNION {[1..k -> RuleLines] : k \in 0..n}

\* a robots.txt body: the rule lines under "User-agent: *" and those under
\* "User-agent: bot" (no lines: the group is absent)
RobotsBodies ==
    {[star |-> s, bot |-> b] : s \in RuleGroups(MaxRules), b \in RuleGroups(1)}
NoBody == [star |-> <<>>, bot |-> <<>>]

\* the path urllib.robotparser matches rules against
Path(u) ==
    LET from == IF StartsWith(u, HTTPS) THEN Len(HTTPS) ELSE Len(HTTP)
        slashes == {i \in (from + 1)..Len(u) : u[i] = "/"}
    IN  IF slashes = {} THEN <<"/">> ELSE SubSeq(u, SetMin(slashes), Len(u))

\* Entry.allowance: the first rule line whose path is a prefix of the URL's
\* path decides; no such line, allowed
RECURSIVE Allowance(_, _, _)
Allowance(lines, p, i) ==
    IF i > Len(lines) THEN TRUE
    ELSE IF StartsWith(p, lines[i].path) THEN lines[i].allow
    ELSE Allowance(lines, p, i + 1)

\* RobotFileParser.can_fetch(user_agent, url) after parse(body): the group
\* naming the agent if there is one, else the "*" group, else allowed
can_fetch(body, agent, u) ==
    IF agent = "bot" /\ body.bot # <<>> THEN Allowance(body.bot, Path(u), 1)
    ELSE Allowance(body.star, Path(u), 1)

\* utils.py line 25-26
UserAgent(agent) == IF agent = "" THEN "*" ELSE agent

\* utils.py line 34-50: the response, with the parser's verdict on its body
RobotsGet(kind, status, body, agent, u) ==
    [kind |-> kind, status |-> status,
     can_fetch |-> can_fetch(body, UserAgent(agent), u)]

RobotsUrls ==
    { HTTP \o <<"a">>, HTTP \o <<"a", "/", "p">>, HTTP \o <<"a", "/", "q">>,
      HTTP \o <<"[", "a">> }
RobotsAgents == {"", "*", "bot"}

RobotsArgs ==
    {[url |-> u, agent |-> a, kind |-> "status", status |-> 200, body |-> b] :
        u \in RobotsUrls, a \in RobotsAgents, b \in RobotsBodies}
    \cup
    {[url |-> u, agent |-> a, kind |-> k[1], status |-> k[2], body |-> NoBody] :
        u \in RobotsUrls, a \in RobotsAgents,
        k \in {<<"status", 404>>, <<"status", 500>>, <<"status", 301>>,
               <<"timeout", 0>>, <<"error", 0>>}}

InitRobots ==
    /\ NoScrape
    /\ NoInteraction
    /\ arg \in RobotsArgs
    /\ ret = None
    /\ frames = <<>>

\* utils.py line 22-65
CallCheckRobotsTxt ==
    /\ pc = "idle"
    /\ ret = None
    /\ ret' = check_robots_txt(arg.url,
                  RobotsGet(arg.kind, arg.status, arg.body, arg.agent, arg.url))
    /\ UNCHANGED << arg, frames, ixVars, inputVars, pc, is_allowed, errors, staticVars,
                    dynamic_result, dynVars, exc, calls, result, raised >>

NextRobots == CallCheckRobotsTxt

SpecRobots == InitRobots /\ [][NextRobots]_vars

\* robots.txt came back with status 200
Retrieved(a) == a.kind = "status" /\ a.status = 200

\* a Disallow line written for the agent (its own group or the "*" group)
\* names a prefix of the URL's path
DisallowMatches(a) ==
    \E g \in {a.body.star} \cup (IF a.agent = "bot" THEN {a.body.bot} ELSE {}) :
      \E i \in 1..Len(g) :
        /\ ~g[i].written
        /\ g[i].path # <<>>
        /\ StartsWith(Path(a.url), g[i].path)

\* C14: check_robots_txt answers allowed, without raising, whenever
\* robots.txt was not retrieved with status 200 (404, another status, a
\* timeout, any error); it answers blocked only when robots.txt was retrieved
\* with status 200 and a Disallow rule for the agent matches the URL.
C14_RobotsFailOpen ==
    ret # None =>
        /\ ~ret.raises
        /\ ~Retrieved(arg) => ret.allowed
        /\ ~ret.allowed => Retrieved(arg) /\ DisallowMatches(arg)

\* a server error on robots.txt let the scrape go on
C14_Witness ==
    /\ ret # None
    /\ arg.kind = "status"
    /\ arg.status = 500
    /\ ret.allowed

\* ------------------------------------------------------------------------
\* needs_js_rendering called on its own, on documents spelled out by what
\* BeautifulSoup finds in them
\* ------------------------------------------------------------------------
\* utils.py line 108-119: ids, attributes and classes of framework roots
SpaMarkers ==
    {"id=__next", "id=___gatsby", "data-reactroot", "data-react-helmet",
     "id=root", "id=app", "class=react-root"}

\* utils.py line 175-177
Landmarks == {"main", "article", "role=main"}

\* visible text length and len(html) of the documents tried, on both sides
\* of every threshold
Sizes ==
    { <<100, 400>>, <<499, 600>>, <<500, 600>>, <<500, 12000>>, <<500, 20000>>,
      <<1999, 3000>>, <<1999, 45000>>, <<1999, 70000>>, <<2000, 45000>>,
      <<2000, 70000>>, <<3000, 3200>> }

Documents ==
    {[markers |-> mk, phrase |-> ph, scripts |-> sc, bundles |-> b,
      content |-> sz[1], size |-> sz[2], landmarks |-> lm] :
        mk \in {{}, {"id=__next"}, {"id=root"}, {"data-reactroot"}, {"id=other"}},
        ph \in {"none", "noscript", "text"},
        sc \in {5, 10, 11, 20, 21, 30, 31},
        b \in BOOLEAN,
        sz \in Sizes,
        lm \in {{}, {"main"}, {"article"}, {"role=main"}, {"nav"}}}

\* utils.py line 104-178: what the classifier reads off the document
Soup(d) ==
    Markup("document", d.markers \cap SpaMarkers # {}, d.phrase # "none",
           d.scripts, d.bundles, d.content, d.size, d.landmarks \cap Landmarks # {})

InitClassifier ==
    /\ NoScrape
    /\ NoInteraction
    /\ arg \in Documents
    /\ ret = None
    /\ frames = <<>>

\* utils.py line 89-195
CallNeedsJsRendering ==
    /\ pc = "idle"
    /\ ret = None
    /\ ret' = [value |-> needs_js_rendering(Soup(arg))]
    /\ UNCHANGED << arg, frames, ixVars, inputVars, pc, is_allowed, errors, staticVars,
                    dynamic_result, dynVars, exc, calls, result, raised >>

NextClassifier == CallNeedsJsRendering

SpecClassifier == InitClassifier /\ [][NextClassifier]_vars

\* the seven conditions, each read on the document alone
HasSpaMarker(d) == \E x \in d.markers : x \in SpaMarkers
HasJsMessage(d) == d.phrase \in {"noscript", "text"}
LittleText(d) == d.content < MIN_CONTENT_LENGTH
NoLandmark(d) == \A x \in d.landmarks : x \notin Landmarks
BundledShell(d) == d.bundles /\ d.scripts > 10 /\ 100 * d.content < 3 * d.size
ManyScripts(d) == d.scripts > 30 /\ 100 * d.content < 5 * d.size
ScriptsOverText(d) ==
    d.scripts > MAX_SCRIPT_COUNT_THRESHOLD /\ d.content < MIN_SEMANTIC_CONTENT_LENGTH

\* C15: needs_js_rendering answers 'requires render' exactly when one of the
\* seven conditions holds (so the first that holds decides and nothing later
\* can overturn it); in particular a framework root marker forces 'requires
\* render' whatever the text length, the landmarks and the script count.
C15_ClassifierConditions ==
    ret # None =>
        /\ ret.value =
                 (\/ HasSpaMarker(arg) \/ HasJsMessage(arg) \/ LittleText(arg)
                  \/ NoLandmark(arg) \/ BundledShell(arg) \/ ManyScripts(arg)
                  \/ ScriptsOverText(arg))
        /\ "id=__next" \in arg.markers => ret.value

\* a long, landmarked, script-light document with a Next.js root was sent to
\* the renderer
C15_Witness ==
    /\ ret = [value |-> TRUE]
    /\ "id=__next" \in arg.markers
    /\ arg.content = 3000
    /\ arg.landmarks = {"main"}
    /\ arg.scripts = 5
    /\ arg.phrase = "none"

\* ------------------------------------------------------------------------
\* handle_interactions (interactions.py), one browser interaction per step
\* ------------------------------------------------------------------------
MAX_INTERACTION_DEPTH == 3
MAX_TABS_TO_CLICK == 5

TAB_SELECTORS ==
    <<"[role='tab']", ".tab", "[class*='tab']", "button[aria-selected]">>
LOAD_MORE_SELECTORS ==
    <<"button:has-text('Load more')", "button:has-text('Show more')",
      "a:has-text('Load more')", "[class*='load-more']", "[class*='show-more']">>
PAGINATION_SELECTORS ==
    <<"a:has-text('Next')", "button:has-text('Next')", "[rel='next']",
      "[class*='next']", "[class*='pagination'] a">>

MaxTabsFound == 6     \* elements one tab selector may match
MaxHeight == 3        \* largest document.body.scrollHeight
MaxFaults == 1        \* browser calls that raise within one call
MaxUrls == 2          \* URLs the page moves to within one call

Range(s) == {s[k] : k \in 1..Len(s)}
SetMax(S) == CHOOSE x \in S : \A y \in S : y <= x
Min(a, b) == IF a <= b THEN a ELSE b

\* the locals of a try_* function at its first statement
Locals ==
    [attempt |-> 0, selector |-> 1, clicked |-> FALSE, tabs |-> 0, i |-> 0,
     clicks |-> <<>>, previous_height |-> 0, scroll_count |-> 0,
     visited_urls |-> <<>>, pages_visited |-> <<>>, html_contents |-> <<>>]

\* the try_* calls of handle_interactions, in program order: line 225, 230,
\* 235, 247, 261, 271, and the return of line 283
BlockName == <<"tabs", "load_more", "scroll", "pagination", "scroll", "pagination">>
BlockPc ==
    <<"tabs", "load_more", "scroll", "pagination_init", "scroll",
      "pagination_init", "done">>

SelectedMutantScrollPaginates(strategy, b) ==
    CASE b = 1 -> strategy \in {"auto", "tabs", "all"}
      [] b = 2 -> strategy \in {"auto", "load_more", "all"}
      [] b = 3 -> strategy \in {"auto", "scroll", "all"}
      [] b = 4 -> strategy \in {"auto", "pagination", "all", "scroll"}

\* interactions.py line 223, 228, 233, 245
Selected(strategy, b) ==
    CASE b = 1 -> strategy \in {"auto", "tabs", "all"}
      [] b = 2 -> strategy \in {"auto", "load_more", "all"}
      [] b = 3 -> strategy \in {"auto", "scroll", "all"}
      [] b = 4 -> strategy \in {"auto", "pagination", "all"}

\* interactions.py line 259
FallbackCond(h) ==
    h.strategy = "auto" /\ h.clicks = <<>> /\ h.scrolls = 0 /\ Len(h.pages) = 1

\* the call that follows call b (0: none was made yet), 7 for the return
RECURSIVE Following(_, _)
Following(b, h) ==
    IF b < 4 THEN IF Selected(h.strategy, b + 1) THEN b + 1
                  ELSE Following(b + 1, h)
    ELSE IF b = 4 THEN IF FallbackCond(h) THEN 5 ELSE 7
    ELSE IF b = 5 THEN IF h.scrolls = 0 THEN 6 ELSE 7
    ELSE 7

\* the call that is running
CurrentBlock ==
    CASE ipc \in {"tabs", "tab_click"} -> 1
      [] ipc = "load_more" -> 2
      [] ipc = "scroll" -> IF in_fallback THEN 5 ELSE 3
      [] ipc \in {"pagination_init", "pagination"} -> IF in_fallback THEN 6 ELSE 4
      [] ipc = "done" -> 7
      [] OTHER -> 0

\* interactions.py line 241-243, 251-253: append the pages not yet listed
RECURSIVE MergePages(_, _, _)
MergePages(ps, new, k) ==
    IF k > Len(new) THEN ps
    ELSE MergePages(IF new[k] \in Range(ps) THEN ps ELSE Append(ps, new[k]),
                    new, k + 1)

CollectMutantAppendAll(h, b, l) ==
    IF b \in {1, 2} THEN [h EXCEPT !.clicks = @ \o l.clicks]
    ELSE IF b \in {3, 5}
    THEN [h EXCEPT !.scrolls = l.scroll_count, !.pages = @ \o l.visited_urls]
    ELSE [h EXCEPT !.pages = @ \o l.pages_visited,
                   !.html_contents = @ \o l.html_contents]

\* what handle_interactions does with the values call b returned
Collect(h, b, l) ==
    IF b \in {1, 2} THEN [h EXCEPT !.clicks = @ \o l.clicks]
    ELSE IF b \in {3, 5}
    THEN [h EXCEPT !.scrolls = l.scroll_count,
                   !.pages = MergePages(@, l.visited_urls, 1)]
    ELSE [h EXCEPT !.pages = MergePages(@, l.pages_visited, 1),
                   !.html_contents = @ \o l.html_contents]

\* handle_interactions makes call b
Enter(b) ==
    /\ ipc' = BlockPc[b]
    /\ in_fallback' = (b \in {5, 6})
    /\ runs' = IF b = 7 THEN runs ELSE Append(runs, BlockName[b])
    /\ sub' = Locals

\* the running try_* function returns with locals l
SubReturn(l) ==
    /\ hi' = Collect(hi, CurrentBlock, l)
    /\ Enter(Following(CurrentBlock, hi'))

\* the running try_* function goes on at position at with locals l
SubContinue(l, at) ==
    /\ sub' = l
    /\ ipc' = at
    /\ UNCHANGED << hi, in_fallback, runs >>

NextAttemptMutantStuck(a) == a

\* interactions.py line 71, 116, 175: the for loop over range(...)
NextAttempt(a) == a + 1

\* the selector loops of try_click_load_more (line 75, 96-103) and of
\* try_pagination (line 179, 200-207): next selector, next attempt, or out
AfterSelector(l, n, max, broke) ==
    IF ~broke /\ l.selector < n
    THEN [returns |-> FALSE, loc |-> [l EXCEPT !.selector = @ + 1]]
    ELSE IF ~l.clicked THEN [returns |-> TRUE, loc |-> l]
    ELSE IF NextAttempt(l.attempt) >= max THEN [returns |-> TRUE, loc |-> l]
    ELSE [returns |-> FALSE,
          loc |-> [l EXCEPT !.attempt = NextAttempt(@), !.selector = 1,
                            !.clicked = FALSE]]

Step(r, at) == IF r.returns THEN SubReturn(r.loc) ELSE SubContinue(r.loc, at)

GrowthCheckMutantNever(d) == "break"

\* interactions.py line 94-96, d = element_count_after - element_count_before
GrowthCheck(d) == IF d <= 0 THEN "return" ELSE "break"

\* the load-more control as the call has met it: "untried" while no selector
\* found it, "steady" while every click left the element count as it was,
\* "lively" once a click added elements or a browser call raised
Seen(before, o, d) ==
    IF o = "absent" THEN before
    ELSE IF o = "clicked" /\ d <= 0 /\ before # "lively" THEN "steady"
    ELSE "lively"

\* a URL the page has not been at
NewUrl ==
    1 + SetMax({cur_url} \cup Range(hi.pages) \cup Range(sub.visited_urls)
               \cup Range(sub.pages_visited))

TabLabel(sel) == [kind |-> "tabs", at |-> TAB_SELECTORS[sel]]
LoadMoreLabel(attempt) == [kind |-> "load_more", at |-> attempt + 1]
Captured(u) == [content |-> u]

InteractStrategies == Strategies \cup {"unknown"}

InitInteract ==
    /\ NoScrape
    /\ NoCall
    /\ hi \in {[strategy |-> s, clicks |-> <<>>, scrolls |-> 0, pages |-> <<>>,
               html_contents |-> <<>>] : s \in InteractStrategies}
    /\ sub = Locals
    /\ ipc = "start"
    /\ in_fallback = FALSE
    /\ cur_url = 0
    /\ runs = <<>>
    /\ lm_seen = "untried"
    /\ acts = [tab |-> 0, load_more |-> 0, scroll |-> 0, hop |-> 0]
    /\ faults = 0

scrapeVars == << inputVars, pc, is_allowed, errors, staticVars, dynamic_result,
                 dynVars, exc, calls, result, raised >>

Fault(b) == IF b THEN faults + 1 ELSE faults

\* browser calls that may have raised so far: MaxFaults, and one more in the
\* repeated scroll/pagination pass of 'auto' (line 259-277)
FaultBudget == IF in_fallback THEN MaxFaults + 1 ELSE MaxFaults

\* interactions.py line 217-223
Start ==
    /\ ipc = "start"
    /\ hi' = [hi EXCEPT !.clicks = <<>>, !.scrolls = 0, !.pages = <<cur_url>>,
                        !.html_contents = <<>>]
    /\ Enter(Following(0, hi'))
    /\ UNCHANGED << cur_url, lm_seen, acts, faults, fnVars, scrapeVars >>

TabsNextMutantEveryPattern(l, tried) ==
    IF l.selector >= Len(TAB_SELECTORS) THEN SubReturn(l)
    ELSE SubContinue([l EXCEPT !.selector = @ + 1, !.tabs = 0, !.i = 0], "tabs")

\* try_click_tabs after one selector: line 55-56 when its tabs were tried,
\* then the next selector or the return of line 61
TabsNext(l, tried) ==
    IF tried /\ l.clicks # <<>> THEN SubReturn(l)
    ELSE IF l.selector >= Len(TAB_SELECTORS) THEN SubReturn(l)
    ELSE SubContinue([l EXCEPT !.selector = @ + 1, !.tabs = 0, !.i = 0], "tabs")

\* interactions.py line 36-44, 58-59
TabsQuery ==
    /\ ipc = "tabs"
    /\ \E o \in {"error", "found"}, n \in 0..MaxTabsFound :
         /\ o = "error" => n = 0 /\ faults < FaultBudget
         /\ faults' = Fault(o = "error")
         /\ IF o = "found" /\ n > 0
            THEN SubContinue([sub EXCEPT !.tabs = Min(n, MAX_TABS_TO_CLICK),
                                      !.i = 0], "tab_click")
            ELSE TabsNext(sub, FALSE)
    /\ UNCHANGED << cur_url, lm_seen, acts, fnVars, scrapeVars >>

\* interactions.py line 44-52
TabClick ==
    /\ ipc = "tab_click"
    /\ \E ok \in BOOLEAN :
         /\ ~ok => faults < FaultBudget
         /\ faults' = Fault(~ok)
         /\ acts' = [acts EXCEPT !.tab = IF ok THEN @ + 1 ELSE @]
         /\ LET l == [sub EXCEPT !.i = @ + 1,
                                 !.clicks = IF ok THEN Append(@, TabLabel(sub.selector))
                                            ELSE @]
            IN  IF l.i < l.tabs THEN SubContinue(l, "tab_click")
                ELSE TabsNext(l, TRUE)
    /\ UNCHANGED << cur_url, lm_seen, fnVars, scrapeVars >>

\* interactions.py line 75-103, one selector of one attempt
LoadMoreSelector ==
    /\ ipc = "load_more"
    /\ \E o \in {"absent", "error", "clicked_error", "clicked"}, d \in {-1, 0, 1} :
         LET did == o \in {"clicked_error", "clicked"}
             l == IF did
                  THEN [sub EXCEPT !.clicks = Append(@, LoadMoreLabel(sub.attempt)),
                                   !.clicked = TRUE]
                  ELSE sub
         IN  /\ o # "clicked" => d = 0
             /\ o \in {"error", "clicked_error"} => faults < FaultBudget
             /\ faults' = Fault(o \in {"error", "clicked_error"})
             /\ lm_seen' = Seen(lm_seen, o, d)
             /\ acts' = [acts EXCEPT !.load_more = IF did THEN @ + 1 ELSE @]
             /\ IF o = "clicked" /\ GrowthCheck(d) = "return" THEN SubReturn(l)
                ELSE Step(AfterSelector(l, Len(LOAD_MORE_SELECTORS),
                                        MAX_INTERACTION_DEPTH, o = "clicked"),
                          "load_more")
    /\ UNCHANGED << cur_url, fnVars, scrapeVars >>

\* interactions.py line 116-155, one attempt
ScrollAttempt ==
    /\ ipc = "scroll"
    /\ \E o \in {"height_error", "stalled", "scroll_error", "wait_error", "scrolled"},
          h \in 0..MaxHeight, moved \in BOOLEAN :
         LET stalled == sub.previous_height > 0 /\ h <= sub.previous_height
             l1 == [sub EXCEPT !.previous_height = h]
             l2 == [l1 EXCEPT !.scroll_count = @ + 1]
             u == IF moved THEN NewUrl ELSE cur_url
             l3 == [l2 EXCEPT !.visited_urls = IF u \in Range(@) THEN @
                                               ELSE Append(@, u),
                              !.attempt = NextAttempt(@)]
             raised_here == o \in {"height_error", "scroll_error", "wait_error"}
         IN  /\ o = "height_error" => h = 0
             /\ (o = "stalled") = (o # "height_error" /\ stalled)
             /\ o # "scrolled" => ~moved
             /\ moved => NewUrl <= MaxUrls
             /\ raised_here => faults < FaultBudget
             /\ faults' = Fault(raised_here)
             /\ cur_url' = IF o = "scrolled" THEN u ELSE cur_url
             /\ acts' = [acts EXCEPT !.scroll = IF o \in {"wait_error", "scrolled"}
                                                THEN @ + 1 ELSE @]
             /\ IF o \in {"height_error", "stalled"} THEN SubReturn(sub)
                ELSE IF o = "scroll_error" THEN SubReturn(l1)
                ELSE IF o = "wait_error" THEN SubReturn(l2)
                ELSE IF l3.attempt >= MAX_INTERACTION_DEPTH THEN SubReturn(l3)
                ELSE SubContinue(l3, "scroll")
    /\ UNCHANGED << lm_seen, fnVars, scrapeVars >>

\* interactions.py line 164-175
PaginationInit ==
    /\ ipc = "pagination_init"
    /\ \E ok \in BOOLEAN :
         /\ ~ok => faults < FaultBudget
         /\ faults' = Fault(~ok)
         /\ LET l == [sub EXCEPT !.pages_visited = <<cur_url>>,
                                 !.html_contents = IF ok THEN <<Captured(cur_url)>>
                                                   ELSE <<>>]
            IN  IF MAX_INTERACTION_DEPTH - 1 <= 0 THEN SubReturn(l)
                ELSE SubContinue(l, "pagination")
    /\ UNCHANGED << cur_url, lm_seen, acts, fnVars, scrapeVars >>

\* interactions.py line 179-207, one selector of one attempt
PaginationSelector ==
    /\ ipc = "pagination"
    /\ \E o \in {"absent", "error", "clicked"},
          to \in {cur_url, NewUrl} \cup Range(sub.pages_visited),
          content_ok \in BOOLEAN :
         LET fresh == o = "clicked" /\ to # cur_url
                      /\ to \notin Range(sub.pages_visited)
             l == IF fresh
                  THEN [sub EXCEPT !.pages_visited = Append(@, to),
                                   !.clicked = TRUE,
                                   !.html_contents =
                                       IF content_ok THEN Append(@, Captured(to))
                                       ELSE @]
                  ELSE sub
             raised_here == o = "error" \/ ~content_ok
         IN  /\ o # "clicked" => to = cur_url
             /\ to <= MaxUrls
             /\ ~fresh => content_ok
             /\ raised_here => faults < FaultBudget
             /\ faults' = Fault(raised_here)
             /\ cur_url' = to
             /\ acts' = [acts EXCEPT !.hop = IF fresh THEN @ + 1 ELSE @]
             /\ Step(AfterSelector(l, Len(PAGINATION_SELECTORS),
                                   MAX_INTERACTION_DEPTH - 1, fresh /\ content_ok),
                     "pagination")
    /\ UNCHANGED << lm_seen, fnVars, scrapeVars >>

NextInteract ==
    \/ Start
    \/ TabsQuery
    \/ TabClick
    \/ LoadMoreSelector
    \/ ScrollAttempt
    \/ PaginationInit
    \/ PaginationSelector

SpecInteract == InitInteract /\ [][NextInteract]_vars

\* ------------------------------------------------------------------------
\* Properties of handle_interactions
\* ------------------------------------------------------------------------
Returned == ipc = "done"
Ran(name) == name \in Range(runs)
IsPrefix(s, t) == Len(s) <= Len(t) /\ s = SubSeq(t, 1, Len(s))
ClicksOf(kind) == {k \in 1..Len(hi.clicks) : hi.clicks[k].kind = kind}
InitialUrl == 0

\* C16: under 'auto' the call runs tabs, then load-more, and runs scroll or
\* pagination only when these two recorded no click.
C16_AutoScrollPaginationLastResort ==
    hi.strategy = "auto" /\ Returned =>
        /\ IsPrefix(<<"tabs", "load_more">>, runs)
        /\ hi.clicks # <<>> => ~Ran("scroll") /\ ~Ran("pagination")

\* the sub-strategies a selector other than 'auto' stands for
Fixed(strategy) ==
    CASE strategy = "all" -> <<"tabs", "load_more", "scroll", "pagination">>
      [] strategy = "tabs" -> <<"tabs">>
      [] strategy = "load_more" -> <<"load_more">>
      [] strategy = "scroll" -> <<"scroll">>
      [] strategy = "pagination" -> <<"pagination">>

\* C17: for 'all' and for each single selector the sub-strategies run are
\* the selector's own, once each and in the order tabs, load-more, scroll,
\* pagination, whatever the earlier ones produced; a single selector leaves
\* the outputs that belong to the other sub-strategies as they were set at
\* the start (no clicks, scrolls = 0, pages = [initial URL], no snapshots).
C17_SelectorFixesSubStrategies ==
    hi.strategy \in {"all", "tabs", "load_more", "scroll", "pagination"} =>
        /\ IsPrefix(runs, Fixed(hi.strategy))
        /\ Returned => runs = Fixed(hi.strategy)
        /\ Returned /\ hi.strategy \in {"tabs", "load_more"} =>
             /\ ClicksOf(hi.strategy) = 1..Len(hi.clicks)
             /\ hi.scrolls = 0
             /\ hi.pages = <<InitialUrl>>
             /\ hi.html_contents = <<>>
        /\ Returned /\ hi.strategy = "scroll" =>
             /\ hi.clicks = <<>>
             /\ hi.html_contents = <<>>
             /\ hi.pages[1] = InitialUrl
        /\ Returned /\ hi.strategy = "pagination" =>
             /\ hi.clicks = <<>>
             /\ hi.scrolls = 0
             /\ hi.pages[1] = InitialUrl

\* 'all' went through its four sub-strategies although the first ones had
\* already clicked
C17_Witness ==
    /\ Returned
    /\ hi.strategy = "all"
    /\ ClicksOf("tabs") # {}
    /\ ClicksOf("load_more") # {}
    /\ runs = <<"tabs", "load_more", "scroll", "pagination">>

\* C18: under 'load_more', when the control was found and no click on it
\* added an element, the loop stops at the first click: one click performed,
\* one click recorded.
C18_NoGrowthStopsLoadMore ==
    hi.strategy = "load_more" /\ lm_seen = "steady" =>
        /\ Returned
        /\ acts.load_more = 1
        /\ Len(hi.clicks) = 1
        /\ hi.clicks[1] = LoadMoreLabel(0)

C18_Witness ==
    /\ hi.strategy = "load_more"
    /\ lm_seen = "steady"
    /\ Returned
    /\ Len(hi.clicks) = 1

\* C19: within one call the tab clicks, the load-more clicks, the scroll
\* actions and the pagination hops each stay within MAX_INTERACTION_DEPTH.
C19_SharedDepthBound ==
    /\ acts.tab <= MAX_INTERACTION_DEPTH
    /\ acts.load_more <= MAX_INTERACTION_DEPTH
    /\ acts.scroll <= MAX_INTERACTION_DEPTH
    /\ acts.hop <= MAX_INTERACTION_DEPTH

RankBase == 32

\* iterations the running try_* function can still make
Within ==
    CASE ipc = "tabs" ->
           (Len(TAB_SELECTORS) - sub.selector + 1) * (MAX_TABS_TO_CLICK + 1)
      [] ipc = "tab_click" ->
           (Len(TAB_SELECTORS) - sub.selector) * (MAX_TABS_TO_CLICK + 1)
           + (sub.tabs - sub.i)
      [] ipc = "load_more" ->
           (MAX_INTERACTION_DEPTH - sub.attempt - 1) * Len(LOAD_MORE_SELECTORS)
           + (Len(LOAD_MORE_SELECTORS) - sub.selector + 1)
      [] ipc = "scroll" -> MAX_INTERACTION_DEPTH - sub.attempt
      [] ipc = "pagination_init" ->
           (MAX_INTERACTION_DEPTH - 1) * Len(PAGINATION_SELECTORS) + 1
      [] ipc = "pagination" ->
           (MAX_INTERACTION_DEPTH - 2 - sub.attempt) * Len(PAGINATION_SELECTORS)
           + (Len(PAGINATION_SELECTORS) - sub.selector + 1)
      [] OTHER -> 0

\* steps handle_interactions can still take: calls left to make, then
\* iterations left in the running one
Rank == (7 - CurrentBlock) * RankBase + Within

\* C20: handle_interactions terminates on every strategy and every page:
\* until it has returned it can always take a step, and every step brings a
\* natural-numbered measure strictly down.
C20_Terminates ==
    /\ [](Rank \in 0..(7 * RankBase))
    /\ [](~Returned => ENABLED NextInteract)
    /\ [][Rank' < Rank]_vars

\* the adversarial page: every control stays, every click and scroll grows
\* the page, every 'next' leads to a new URL; the call still returned
C20_Witness ==
    /\ Returned
    /\ hi.strategy = "all"
    /\ acts.tab = MAX_TABS_TO_CLICK
    /\ acts.load_more = MAX_INTERACTION_DEPTH
    /\ hi.scrolls = MAX_INTERACTION_DEPTH
    /\ acts.hop = MAX_INTERACTION_DEPTH - 1

\* what the call has recorded so far, in handle_interactions and in the
\* running try_* function
AllClicks == hi.clicks \o sub.clicks
AllScrolls == hi.scrolls + sub.scroll_count
AllPages == Range(hi.pages) \cup Range(sub.visited_urls) \cup Range(sub.pages_visited)

\* the running loop has a further iteration after the one at hand: a tab, a
\* selector of the round, or a scroll attempt
HasMore ==
    CASE ipc = "tabs" -> sub.selector < Len(TAB_SELECTORS)
      [] ipc = "tab_click" -> sub.i + 1 < sub.tabs
      [] ipc = "load_more" -> sub.selector < Len(LOAD_MORE_SELECTORS)
      [] ipc = "scroll" -> sub.attempt + 1 < MAX_INTERACTION_DEPTH
      [] ipc = "pagination_init" -> MAX_INTERACTION_DEPTH - 1 > 0
      [] ipc = "pagination" -> sub.selector < Len(PAGINATION_SELECTORS)
      [] OTHER -> FALSE

\* C21: a browser call that raises aborts only the attempt it belongs to: the
\* running sub-strategy goes on with its remaining attempts, every sub-strategy
\* the strategy selects is still run, and the clicks, scrolls and pages
\* recorded before the failure are kept.
C21_FaultIsolation ==
    /\ [](Returned => \A b \in 1..4 : Selected(hi.strategy, b) => Ran(BlockName[b]))
    /\ [][faults' > faults =>
            /\ HasMore => (runs' = runs /\ ipc' # "done")
            /\ IsPrefix(AllClicks, AllClicks')
            /\ AllScrolls' >= AllScrolls
            /\ AllPages \subseteq AllPages']_vars

NoDuplicates(s) == \A j, k \in 1..Len(s) : s[j] = s[k] => j = k

\* C28: the page list of handle_interactions, which scrape_dynamic hands on
\* as Interactions.pages, never holds a URL twice, whatever the strategy and
\* however the scrolls and the pagination hops move the page; the lists the
\* scroll and pagination functions return are duplicate-free as well.
C28_PagesUnique ==
    /\ NoDuplicates(hi.pages)
    /\ NoDuplicates(sub.visited_urls)
    /\ NoDuplicates(sub.pages_visited)

\* strategy 'all' returned three pages after a scroll moved the page and a
\* pagination hop moved it again, the pagination list starting at a page
\* that was already listed
C28_Witness ==
    /\ Returned
    /\ hi.strategy = "all"
    /\ Len(hi.pages) = 3
    /\ acts.scroll >= 1
    /\ acts.hop >= 1

\* ------------------------------------------------------------------------
\* Content extractors (parser.py), called on their own
\* ------------------------------------------------------------------------
MaxItems == 3         \* strings, anchors or images of one fragment

\* " ".join(texts)
RECURSIVE Join(_)
Join(texts) ==
    IF texts = <<>> THEN <<>>
    ELSE IF Len(texts) = 1 THEN texts[1]
    ELSE texts[1] \o <<" ">> \o Join(Tail(texts))

\* re.sub(r"\s+", " ", text)
RECURSIVE Squeeze(_, _)
Squeeze(s, i) ==
    IF i > Len(s) THEN <<>>
    ELSE IF ~IsSpace(s[i]) THEN <<s[i]>> \o Squeeze(s, i + 1)
    ELSE IF i > 1 /\ IsSpace(s[i - 1]) THEN Squeeze(s, i + 1)
    ELSE <<" ">> \o Squeeze(s, i + 1)

\* A fragment is the strings of an element in document order; each string
\* says whether it lies in an <a> and whether it lies in a <table> of the
\* fragment.  enclosed: the element itself lies inside a <table> of the
\* document.
\* parser.py line 143-157: the stripped strings outside tables, joined
RECURSIVE get_text_skipping_tags(_, _)
get_text_skipping_tags(strs, k) ==
    IF k > Len(strs) THEN <<>>
    ELSE LET t == Strip(strs[k].s)
             rest == get_text_skipping_tags(strs, k + 1)
         IN  IF strs[k].table \/ t = <<>> THEN rest ELSE <<t>> \o rest

\* parser.py line 165-171: a.get_text(strip=True) of every <a> that has no
\* <table> among its ancestors
RECURSIVE LinkTextLen(_, _, _)
LinkTextLen(strs, enclosed, k) ==
    IF k > Len(strs) THEN 0
    ELSE (IF strs[k].anchor /\ ~strs[k].table /\ ~enclosed
          THEN Len(Strip(strs[k].s)) ELSE 0)
         + LinkTextLen(strs, enclosed, k + 1)

\* parser.py line 174-177: density = link_text_len / len(text) > 0.6, exact
\* in floating point because 3/5 rounds to the literal 0.6
Dense(link_text_len, n) == 10 * link_text_len > 6 * n

\* parser.py line 134-179
extract_text(f) ==
    LET text == Strip(Squeeze(Join(get_text_skipping_tags(f.runs, 1)), 1))
    IN  IF text = <<>> THEN <<>>
        ELSE IF Dense(LinkTextLen(f.runs, f.enclosed, 1), Len(text)) THEN <<>>
        ELSE text

\* A URL is a sequence of tokens: an origin ("http://site") followed by path
\* segments.  A reference is a URL, a rooted path (first token "/"), a path
\* relative to the base, or nothing.
Origins == {"http://site", "http://cdn"}

\* urllib.parse.urljoin(base_url, ref)
urljoin(base_url, ref) ==
    IF ref = <<>> THEN base_url
    ELSE IF ref[1] \in Origins THEN ref
    ELSE IF ref[1] = "/" THEN <<base_url[1]>> \o Tail(ref)
    ELSE IF Len(base_url) = 1 THEN base_url \o ref
    ELSE SubSeq(base_url, 1, Len(base_url) - 1) \o ref

LinkItem(text, href) == [text |-> text, href |-> href]
ImageItem(src, alt) == [src |-> src, alt |-> alt]

\* parser.py line 192: targets that are no pages
NoPage(href) ==
    \/ href = <<>>
    \/ href[1] \in {"#", "javascript:", "mailto:", "tel:"}

DuplicateMutantNever(absolute_url, seen) == FALSE

\* parser.py line 199, 229: the resolved URL was met before
Duplicate(absolute_url, seen) == absolute_url \in seen

\* parser.py line 189-205, from the k-th <a> on
RECURSIVE LinksFrom(_, _, _, _)
LinksFrom(anchors, base_url, k, seen_hrefs) ==
    IF k > Len(anchors) THEN <<>>
    ELSE LET a_tag == anchors[k]
             href == Strip(a_tag.href)
             absolute_url == urljoin(base_url, href)
             text == IF Strip(a_tag.text) # <<>> THEN Strip(a_tag.text)
                     ELSE absolute_url
         IN  IF ~a_tag.has_href \/ NoPage(href)
                \/ Duplicate(absolute_url, seen_hrefs)
             THEN LinksFrom(anchors, base_url, k + 1, seen_hrefs)
             ELSE <<LinkItem(text, absolute_url)>>
                  \o LinksFrom(anchors, base_url, k + 1,
                               seen_hrefs \cup {absolute_url})

\* parser.py line 182-207
extract_links(anchors, base_url) == LinksFrom(anchors, base_url, 1, {})

\* parser.py line 217-235, from the k-th <img> on
RECURSIVE ImagesFrom(_, _, _, _)
ImagesFrom(imgs, base_url, k, seen_srcs) ==
    IF k > Len(imgs) THEN <<>>
    ELSE LET img_tag == imgs[k]
             src == IF img_tag.src # <<>> THEN img_tag.src ELSE img_tag.data_src
             absolute_url == urljoin(base_url, Strip(src))
         IN  IF src = <<>> \/ Duplicate(absolute_url, seen_srcs)
             THEN ImagesFrom(imgs, base_url, k + 1, seen_srcs)
             ELSE <<ImageItem(absolute_url, Strip(img_tag.alt))>>
                  \o ImagesFrom(imgs, base_url, k + 1,
                                seen_srcs \cup {absolute_url})

\* parser.py line 210-237
extract_images(imgs, base_url) == ImagesFrom(imgs, base_url, 1, {})

SeqsUpTo(S, n) == UNION {[1..k -> S] : k \in 0..n}

\* the strings of a fragment
RunTexts == {<<"x">>, <<"x", "x", "x">>, <<"x", " ", " ", "x">>, <<" ">>}
Runs == [s : RunTexts, anchor : BOOLEAN, table : BOOLEAN]
TextArgs ==
    [fn : {"extract_text"}, runs : SeqsUpTo(Runs, MaxItems), enclosed : BOOLEAN]

BaseUrl == <<"http://site", "d", "page">>
Hrefs ==
    {<<"http://site", "d", "a">>, <<"/", "d", "a">>, <<"a">>, <<" ", "a", " ">>,
     <<"http://cdn", "d", "a">>, <<"#", "top">>, <<"mailto:", "x">>, <<>>}
Anchors ==
    [has_href : {TRUE}, href : Hrefs, text : {<<>>, <<"x">>}]
    \cup {[has_href |-> FALSE, href |-> <<>>, text |-> <<"x">>]}
LinkArgs ==
    [fn : {"extract_links"}, anchors : SeqsUpTo(Anchors, MaxItems),
     base_url : {BaseUrl}]

Srcs == {<<"http://site", "d", "a">>, <<"a">>, <<" ">>, <<>>}
Imgs == [src : Srcs, data_src : {<<>>, <<"a">>}, alt : {<<>>, <<" ", "x">>}]
ImageArgs ==
    [fn : {"extract_images"}, imgs : SeqsUpTo(Imgs, MaxItems), base_url : {BaseUrl}]

InitExtract ==
    /\ NoScrape
    /\ NoInteraction
    /\ arg \in TextArgs \cup LinkArgs \cup ImageArgs
    /\ ret = None
    /\ frames = <<>>

Returns(v) ==
    /\ pc = "idle"
    /\ ret = None
    /\ ret' = [value |-> v]
    /\ UNCHANGED << arg, frames, ixVars, inputVars, pc, is_allowed, errors, staticVars,
                    dynamic_result, dynVars, exc, calls, result, raised >>

\* parser.py line 134-179
CallExtractText ==
    /\ arg.fn = "extract_text"
    /\ Returns(extract_text(arg))

\* parser.py line 182-207
CallExtractLinks ==
    /\ arg.fn = "extract_links"
    /\ Returns(extract_links(arg.anchors, arg.base_url))

\* parser.py line 210-237
CallExtractImages ==
    /\ arg.fn = "extract_images"
    /\ Returns(extract_images(arg.imgs, arg.base_url))

NextExtract ==
    \/ CallExtractText
    \/ CallExtractLinks
    \/ CallExtractImages

SpecExtract == InitExtract /\ [][NextExtract]_vars

\* ------------------------------------------------------------------------
\* Properties of the content extractors
\* ------------------------------------------------------------------------
Called(fn) == ret # None /\ arg.fn = fn

\* the characters of the fragment that stand in an <a> and are extracted
\* (outside the tables of the fragment), each anchor text stripped
RECURSIVE AnchorChars(_, _)
AnchorChars(strs, k) ==
    IF k > Len(strs) THEN 0
    ELSE (IF strs[k].anchor /\ ~strs[k].table THEN Len(Strip(strs[k].s)) ELSE 0)
         + AnchorChars(strs, k + 1)

\* the non-blank characters of the fragment outside its tables, in order
RECURSIVE Letters(_, _)
Letters(strs, k) ==
    IF k > Len(strs) THEN <<>>
    ELSE (IF strs[k].table THEN <<>> ELSE SelectSeq(strs[k].s, LAMBDA c : ~IsSpace(c)))
         \o Letters(strs, k + 1)

\* t is the whitespace-collapsed text of the fragment: its letters in order,
\* single blanks between the words, none at the ends
CollapsedTextOf(t, strs) ==
    /\ SelectSeq(t, LAMBDA c : ~IsSpace(c)) = Letters(strs, 1)
    /\ \A i \in 1..Len(t) : IsSpace(t[i]) =>
           /\ t[i] = " "
           /\ 1 < i /\ i < Len(t)
           /\ ~IsSpace(t[i + 1])

\* C30: extract_text yields the empty string for every fragment whose anchor
\* text makes up more than 60% of the length of its extracted (collapsed)
\* text, and the whitespace-collapsed text for a fragment at or below 60%.
C30_TextSuppression ==
    Called("extract_text") =>
        LET full == Strip(Squeeze(Join(get_text_skipping_tags(arg.runs, 1)), 1))
        IN  /\ CollapsedTextOf(full, arg.runs)
            /\ IF 10 * AnchorChars(arg.runs, 1) > 6 * Len(full)
               THEN ret.value = <<>>
               ELSE ret.value = full

\* the anchors and images the extractors turn into items, and what they
\* resolve to
UsableAnchor(a) == a.has_href /\ ~NoPage(Strip(a.href))
UsableImg(g) == g.src # <<>> \/ g.data_src # <<>>
AnchorUrl(a, base_url) == urljoin(base_url, Strip(a.href))
ImgUrl(g, base_url) ==
    urljoin(base_url, Strip(IF g.src # <<>> THEN g.src ELSE g.data_src))

\* the first element of s that satisfies Ok and resolves to u
FirstAt(s, u, Ok(_), Url(_, _), base_url) ==
    SetMin({k \in 1..Len(s) : Ok(s[k]) /\ Url(s[k], base_url) = u})

Increasing(f, n) == \A j, k \in 1..n : j < k => f[j] < f[k]

\* C29: extract_links returns one LinkItem per resolved absolute URL and
\* extract_images one ImageItem per resolved absolute URL: every usable
\* element is represented, no URL appears twice, and each item is the one
\* made from the first element in document order that resolves to its URL.
C29_OnePerResolvedUrl ==
    /\ Called("extract_links") =>
         LET links == ret.value
             at == [j \in 1..Len(links) |->
                      FirstAt(arg.anchors, links[j].href, UsableAnchor, AnchorUrl,
                              arg.base_url)]
         IN  /\ NoDuplicates([j \in 1..Len(links) |-> links[j].href])
             /\ {links[j].href : j \in 1..Len(links)}
                  = {AnchorUrl(arg.anchors[k], arg.base_url) :
                       k \in {i \in 1..Len(arg.anchors) : UsableAnchor(arg.anchors[i])}}
             /\ Increasing(at, Len(links))
             /\ \A j \in 1..Len(links) :
                  links[j].text \in {Strip(arg.anchors[at[j]].text), links[j].href}
                  /\ (links[j].text = links[j].href
                        => Strip(arg.anchors[at[j]].text) = <<>>)
    /\ Called("extract_images") =>
         LET images == ret.value
             at == [j \in 1..Len(images) |->
                      FirstAt(arg.imgs, images[j].src, UsableImg, ImgUrl, arg.base_url)]
         IN  /\ NoDuplicates([j \in 1..Len(images) |-> images[j].src])
             /\ {images[j].src : j \in 1..Len(images)}
                  = {ImgUrl(arg.imgs[k], arg.base_url) :
                       k \in {i \in 1..Len(arg.imgs) : UsableImg(arg.imgs[i])}}
             /\ Increasing(at, Len(images))
             /\ \A j \in 1..Len(images) : images[j].alt = Strip(arg.imgs[at[j]].alt)

\* three anchors written differently ("/d/a", " a ", "http://site/d/a")
\* resolve to one URL: one link is returned, made from the first (which has
\* no text, so the URL stands for it)
C29_Witness ==
    /\ Called("extract_links")
    /\ Len(arg.anchors) = 3
    /\ arg.anchors[1] = [has_href |-> TRUE, href |-> <<"/", "d", "a">>, text |-> <<>>]
    /\ arg.anchors[2].href = <<" ", "a", " ">>
    /\ arg.anchors[2].text = <<"x">>
    /\ arg.anchors[3].href = <<"http://site", "d", "a">>
    /\ ret.value = <<LinkItem(<<"http://site", "d", "a">>, <<"http://site", "d", "a">>)>>

\* ------------------------------------------------------------------------
\* parse_html (parser.py): the cleaned document as a tree of elements
\* ------------------------------------------------------------------------
MAX_RAW_HTML_LENGTH == 5000

MaxBlocks == 2        \* top-level subtrees of one document body

\* The soup is the sequence of the elements below <body> in document order.
\* An element has its tag, the distance up to its parent (0: child of body),
\* its own string, a reference (href of <a>, src of <img>) and the number of
\* characters its own tags and string take in the markup.
Node(tag, s, ref, size) == [tag |-> tag, up |-> 0, s |-> s, ref |-> ref, size |-> size]

LandmarkTags == {"header", "nav", "main", "section", "article", "aside", "footer"}
LandmarkParents == {"header", "nav", "main", "section", "article", "footer"}
GroupingHeadings == {"h1", "h2", "h3"}
HeadingTags == {"h1", "h2", "h3", "h4", "h5", "h6"}

Parent(soup, k) == IF soup[k].up = 0 THEN 0 ELSE k - soup[k].up

\* the elements above k, the body left out
RECURSIVE Ancestors(_, _)
Ancestors(soup, k) ==
    IF Parent(soup, k) = 0 THEN {}
    ELSE {Parent(soup, k)} \cup Ancestors(soup, Parent(soup, k))

\* the element e and what lies below it
Inside(soup, e) == {k \in 1..Len(soup) : k = e \/ e \in Ancestors(soup, k)}

RECURSIVE Sorted(_)
Sorted(S) ==
    IF S = {} THEN <<>> ELSE <<SetMin(S)>> \o Sorted(S \ {SetMin(S)})

\* k lies in or below an element of the given tag that belongs to M
LiesIn(soup, k, tag, M) ==
    \E j \in (Ancestors(soup, k) \cup {k}) \cap M : soup[j].tag = tag

\* element.get_text(strip=True)
RECURSIVE GetText(_, _)
GetText(soup, ks) ==
    IF ks = <<>> THEN <<>>
    ELSE Strip(soup[Head(ks)].s) \o GetText(soup, Tail(ks))
NodeText(soup, k) == GetText(soup, Sorted(Inside(soup, k)))

\* the strings of the elements M below a root, as extract_text meets them
RECURSIVE Strings(_, _, _)
Strings(soup, M, ks) ==
    IF ks = <<>> THEN <<>>
    ELSE LET k == Head(ks)
             rest == Strings(soup, M, Tail(ks))
         IN  IF soup[k].s = <<>> THEN rest
             ELSE <<[s |-> soup[k].s, anchor |-> LiesIn(soup, k, "a", M),
                     table |-> LiesIn(soup, k, "table", M)]>> \o rest

\* parser.py line 124-131
RECURSIVE extract_headings(_, _)
extract_headings(soup, ks) ==
    IF ks = <<>> THEN <<>>
    ELSE LET text == NodeText(soup, Head(ks))
             rest == extract_headings(soup, Tail(ks))
         IN  IF soup[Head(ks)].tag \in HeadingTags /\ text # <<>>
             THEN <<text>> \o rest ELSE rest

\* parser.py line 264-296: a table is kept when it has a row of cells
RECURSIVE extract_tables(_, _)
extract_tables(soup, ks) ==
    IF ks = <<>> THEN <<>>
    ELSE LET rest == extract_tables(soup, Tail(ks))
         IN  IF soup[Head(ks)].tag = "table" /\ soup[Head(ks)].s # <<>>
             THEN <<[headers |-> <<>>, rows |-> <<Strip(soup[Head(ks)].s)>>]>> \o rest
             ELSE rest

AnchorsOf(soup, ks) ==
    LET as == SelectSeq(ks, LAMBDA k : soup[k].tag = "a")
    IN  [j \in 1..Len(as) |->
           [has_href |-> TRUE, href |-> soup[as[j]].ref, text |-> NodeText(soup, as[j])]]

ImgsOf(soup, ks) ==
    LET gs == SelectSeq(ks, LAMBDA k : soup[k].tag = "img")
    IN  [j \in 1..Len(gs) |-> [src |-> soup[gs[j]].ref, data_src |-> <<>>, alt |-> <<>>]]

\* parser.py line 310-321, for the elements M below the root (the root is
\* in M when it is an element of the soup); enclosed: the root lies in a
\* table
extract_content(soup, M, enclosed, base_url) ==
    LET ks == Sorted(M)
    IN  [headings |-> extract_headings(soup, ks),
         text |-> extract_text([runs |-> Strings(soup, M, ks), enclosed |-> enclosed]),
         links |-> extract_links(AnchorsOf(soup, ks), base_url),
         images |-> extract_images(ImgsOf(soup, ks), base_url),
         tables |-> extract_tables(soup, ks)]

IsEmptyMutantNever(content) == FALSE

\* parser.py line 353-361, 423-431, 489-495
IsEmpty(content) ==
    /\ content.text = <<>>
    /\ content.headings = <<>>
    /\ content.links = <<>>
    /\ content.tables = <<>>
    /\ content.images = <<>>

\* A string of markup: the first `chars` characters of str(source), with
\* "..." appended when ellipsis is set.
Str(source, n) == [source |-> source, chars |-> n, ellipsis |-> FALSE]
StrLen(h) == h.chars + (IF h.ellipsis THEN 3 ELSE 0)
Slice(h, n) == [h EXCEPT !.chars = Min(@, n)]

RECURSIVE SumSizes(_, _)
SumSizes(soup, ks) ==
    IF ks = <<>> THEN 0 ELSE soup[Head(ks)].size + SumSizes(soup, Tail(ks))

\* len(str(element)) of the elements M put in a root whose own tags take
\* `own` characters
MarkupLen(soup, M, own) == own + SumSizes(soup, Sorted(M))

\* parser.py line 299-307
truncate_html(h, max_length) ==
    IF StrLen(h) <= max_length THEN [html |-> h, truncated |-> FALSE]
    ELSE [html |-> [Slice(h, max_length) EXCEPT !.ellipsis = TRUE],
          truncated |-> TRUE]

\* models.py line 44-53 (the label is left out)
Section(id, type, base_url, content, cut) ==
    [id |-> id, type |-> type, sourceUrl |-> base_url, content |-> content,
     rawHtml |-> cut.html, truncated |-> cut.truncated]

\* parser.py line 69-92 for elements without class and id
classify_section_type(element) ==
    CASE element.tag = "nav" -> "nav"
      [] element.tag = "footer" -> "footer"
      [] element.tag = "header" -> "hero"
      [] element.tag \in {"article", "section"} -> "section"
      [] OTHER -> "unknown"

SectionIdMutantShared(name, section_counter) == <<name, "-", 0>>

\* parser.py line 347, 419, 504: f"{name}-{section_counter}"
SectionId(name, section_counter) == <<name, "-", section_counter>>

\* parser.py line 337-341
InsideLandmark(soup, k) ==
    \E j \in Ancestors(soup, k) : soup[j].tag \in LandmarkParents

\* parser.py line 335-377, from element k on
RECURSIVE LandmarkSections(_, _, _, _)
LandmarkSections(soup, base_url, k, section_counter) ==
    IF k > Len(soup) THEN <<>>
    ELSE IF soup[k].tag \notin LandmarkTags \/ InsideLandmark(soup, k)
    THEN LandmarkSections(soup, base_url, k + 1, section_counter)
    ELSE LET M == Inside(soup, k)
             section_type == classify_section_type(soup[k])
             content == extract_content(soup, M, LiesIn(soup, k, "table", 1..Len(soup)),
                                        base_url)
             raw_html == Str([tier |-> "landmark", at |-> k], MarkupLen(soup, M, 0))
             rest == LandmarkSections(soup, base_url, k + 1, section_counter + 1)
         IN  IF IsEmpty(content) THEN rest
             ELSE <<Section(SectionId(section_type, section_counter), section_type,
                            base_url, content,
                            truncate_html(raw_html, MAX_RAW_HTML_LENGTH))>> \o rest

\* parser.py line 324-379
group_by_landmarks(soup, base_url) == LandmarkSections(soup, base_url, 1, 0)

\* parser.py line 396-407: the heading and the sibling elements that follow
\* it up to the next h1-h3, each with what lies below it
Wrapped(soup, k) ==
    LET siblings == {j \in (k + 1)..Len(soup) : Parent(soup, j) = Parent(soup, k)}
        stops == {j \in siblings : soup[j].tag \in GroupingHeadings}
        stop == IF stops = {} THEN Len(soup) + 1 ELSE SetMin(stops)
    IN  Inside(soup, k) \cup UNION {Inside(soup, j) : j \in {i \in siblings : i < stop}}

\* len("<div></div>"), the wrapper of line 409, and len("<body></body>")
WrapperLen == 11
BodyLen == 13

\* parser.py line 393-446, from element k on
RECURSIVE HeadingSections(_, _, _, _)
HeadingSections(soup, base_url, k, section_counter) ==
    IF k > Len(soup) THEN <<>>
    ELSE IF soup[k].tag \notin GroupingHeadings
    THEN HeadingSections(soup, base_url, k + 1, section_counter)
    ELSE LET M == Wrapped(soup, k)
             content == extract_content(soup, M, FALSE, base_url)
             raw_html == Str([tier |-> "heading", at |-> k],
                             MarkupLen(soup, M, WrapperLen))
             rest == HeadingSections(soup, base_url, k + 1, section_counter + 1)
         IN  IF IsEmpty(content) THEN rest
             ELSE <<Section(SectionId("heading-section", section_counter), "section",
                            base_url, content,
                            truncate_html(raw_html, MAX_RAW_HTML_LENGTH))>> \o rest

\* parser.py line 382-448
group_by_headings(soup, base_url) == HeadingSections(soup, base_url, 1, 0)

\* parser.py line 410-413: what group_by_headings took out of the soup
Moved(soup) ==
    UNION {Wrapped(soup, k) : k \in {j \in 1..Len(soup) : soup[j].tag \in GroupingHeadings}}

\* parser.py line 485: soup.find("main") or soup.find("body"), 0 for the body
MainElement(soup, live) ==
    LET mains == {k \in live : soup[k].tag = "main"}
    IN  IF mains = {} THEN 0 ELSE SetMin(mains)

\* parser.py line 484-511
SingleSection(soup, base_url) ==
    LET live == (1..Len(soup)) \ Moved(soup)
        main_element == MainElement(soup, live)
        M == IF main_element = 0 THEN live ELSE Inside(soup, main_element) \cap live
        content == extract_content(soup, M,
                       main_element # 0
                         /\ LiesIn(soup, main_element, "table", 1..Len(soup)),
                       base_url)
        whole == Str([tier |-> "fallback", at |-> main_element],
                     MarkupLen(soup, M, IF main_element = 0 THEN BodyLen ELSE 0))
        raw_html == Slice(whole, MAX_RAW_HTML_LENGTH)
    IN  IF IsEmpty(content) THEN <<>>
        ELSE <<Section(SectionId("main-content", 0), "section", base_url, content,
                       truncate_html(raw_html, MAX_RAW_HTML_LENGTH))>>

EnoughMutantOne(sections) == Len(sections) >= 1

\* parser.py line 477
Enough(sections) == Len(sections) >= 2

\* parser.py line 451-513, on the cleaned soup
ParseHtml(soup, base_url) ==
    LET by_landmarks == group_by_landmarks(soup, base_url)
        by_headings == group_by_headings(soup, base_url)
    IN  IF Enough(by_landmarks) THEN by_landmarks
        ELSE IF by_headings # <<>> THEN by_headings
        ELSE SingleSection(soup, base_url)

\* dynamic.py line 117-126, from snapshot i on
RECURSIVE PageSections(_, _, _, _)
PageSections(contents, visited, final_url, i) ==
    IF i >= Len(contents) THEN <<>>
    ELSE LET source_url == IF i < Len(visited) THEN visited[i + 1] ELSE final_url
             page_sections == ParseHtml(contents[i + 1], source_url)
         IN  [k \in 1..Len(page_sections) |->
                [page_sections[k] EXCEPT !.id = @ \o <<"-p", i>>]]
             \o PageSections(contents, visited, final_url, i + 1)

\* ------------------------------------------------------------------------
\* Documents
\* ------------------------------------------------------------------------
TagLen == 20
SmallLen == 30

El(tag) == Node(tag, <<>>, <<>>, TagLen)
H2 == Node("h2", <<"x", "x">>, <<>>, TagLen)
H2Blank == Node("h2", <<" ">>, <<>>, TagLen)
P(size) == Node("p", <<"x", "x", "x">>, <<>>, size)
Link(ref) == Node("a", <<"x">>, ref, TagLen)
Img == Node("img", <<>>, <<"a">>, TagLen)
Table == Node("table", <<"x">>, <<>>, TagLen)
LayoutTable == Node("table", <<" ">>, <<>>, TagLen)

\* a paragraph that fills a landmark up to the limit, and one character more
Filling == MAX_RAW_HTML_LENGTH - TagLen

\* the element c with the subtrees kids below it
In(c, kids) ==
    <<c>> \o [j \in 1..Len(kids) |->
                IF kids[j].up = 0 THEN [kids[j] EXCEPT !.up = j] ELSE kids[j]]

Titled == <<H2, P(SmallLen)>>

Blocks ==
    {<<H2>>, <<H2Blank>>, <<P(SmallLen)>>, <<P(Filling + 1)>>, <<Link(<<"a">>)>>,
     <<Table>>}
    \cup {In(El("section"), <<x>>) :
            x \in {P(SmallLen), P(Filling), P(Filling + 1), Link(<<"#", "top">>), Img}}
    \cup {In(El(t), <<>>) : t \in {"section", "main"}}
    \cup {In(El(t), <<P(SmallLen)>>) : t \in {"main", "aside", "footer"}}
    \cup {In(El("main"), <<P(Filling + 1)>>), In(El("div"), <<P(Filling + 1)>>),
          In(El("nav"), <<Link(<<"a">>)>>), In(El("div"), <<H2Blank>>)}
    \cup {In(El(t), Titled) : t \in {"section", "main", "div", "aside"}}
    \cup {In(El("section"), <<H2, P(Filling + 1)>>)}
    \cup {In(El(t), In(El("section"), Titled)) : t \in {"section", "aside", "main"}}
    \cup {In(El("section"), In(El("aside"), <<P(SmallLen)>>)),
          In(LayoutTable, In(El("nav"), <<Link(<<"a">>), Link(<<"b">>)>>))}

RECURSIVE Flatten(_)
Flatten(blocks) ==
    IF blocks = <<>> THEN <<>> ELSE Head(blocks) \o Flatten(Tail(blocks))

Soups == {Flatten(bs) : bs \in SeqsUpTo(Blocks, MaxBlocks)}

\* the snapshots try_pagination hands over, at most MAX_INTERACTION_DEPTH
Snapshots ==
    {<<>>, <<P(SmallLen)>>, Titled, In(El("section"), Titled) \o In(El("section"), Titled),
     In(El("nav"), <<Link(<<"a">>)>>) \o In(El("section"), <<P(SmallLen)>>)}

NextPage == <<"http://site", "d", "page2">>

ParseArgs == [fn : {"parse_html"}, soup : Soups, url : {BaseUrl}]
PageArgs ==
    [fn : {"scrape_dynamic"},
     html_contents : SeqsUpTo(Snapshots, MAX_INTERACTION_DEPTH) \ {<<>>},
     pages_visited : {<<BaseUrl>>, <<BaseUrl, NextPage>>},
     final_url : {BaseUrl}]

InitParser ==
    /\ NoScrape
    /\ NoInteraction
    /\ arg \in ParseArgs \cup PageArgs
    /\ ret = None
    /\ frames = <<>>

\* parser.py line 451-513
CallParseHtml ==
    /\ arg.fn = "parse_html"
    /\ Returns(ParseHtml(arg.soup, arg.url))

\* dynamic.py line 117-126
CallPageSections ==
    /\ arg.fn = "scrape_dynamic"
    /\ Returns(PageSections(arg.html_contents, arg.pages_visited, arg.final_url, 0))

NextParser ==
    \/ CallParseHtml
    \/ CallPageSections

SpecParser == InitParser /\ [][NextParser]_vars

\* ------------------------------------------------------------------------
\* Properties of parse_html
\* ------------------------------------------------------------------------
Emitted == IF Called("parse_html") \/ Called("scrape_dynamic") THEN ret.value ELSE <<>>

\* C22: every Section that parse_html returns, from whichever tier and for
\* whichever snapshot, has a non-empty text, heading list, link list, image
\* list or table list.
C22_NoEmptySection ==
    \A k \in 1..Len(Emitted) :
        LET c == Emitted[k].content
        IN  \/ Len(c.text) > 0
            \/ Len(c.headings) > 0
            \/ Len(c.links) > 0
            \/ Len(c.images) > 0
            \/ Len(c.tables) > 0

\* of two landmarks the first holds nothing but a link to "#top" (its text
\* is suppressed as link text, its link is no page), the second an image:
\* neither alone makes two sections, and the one section returned for the
\* body has the image as its only content
C22_Witness ==
    /\ Called("parse_html")
    /\ arg.soup = In(El("section"), <<Link(<<"#", "top">>)>>) \o In(El("section"), <<Img>>)
    /\ Len(ret.value) = 1
    /\ ret.value[1].content.text = <<>>
    /\ ret.value[1].content.links = <<>>
    /\ Len(ret.value[1].content.images) = 1

\* what str() of the element a section was made from is long
SourceLen(soup, source) ==
    CASE source.tier = "landmark" -> MarkupLen(soup, Inside(soup, source.at), 0)
      [] source.tier = "heading" -> MarkupLen(soup, Wrapped(soup, source.at), WrapperLen)
      [] source.tier = "fallback" ->
            LET live == (1..Len(soup)) \ Moved(soup)
            IN  IF source.at = 0 THEN MarkupLen(soup, live, BodyLen)
                ELSE MarkupLen(soup, Inside(soup, source.at) \cap live, 0)

\* C23: for every Section parse_html returns, truncated is set exactly when
\* the markup of its element is longer than MAX_RAW_HTML_LENGTH; markup within
\* the limit is stored whole, longer markup is cut.
C23_TruncatedIffLonger ==
    Called("parse_html") =>
        \A k \in 1..Len(ret.value) :
            LET section == ret.value[k]
                whole == SourceLen(arg.soup, section.rawHtml.source)
            IN  /\ section.truncated = (whole > MAX_RAW_HTML_LENGTH)
                /\ whole <= MAX_RAW_HTML_LENGTH =>
                       section.rawHtml = Str(section.rawHtml.source, whole)
                /\ whole > MAX_RAW_HTML_LENGTH => section.rawHtml.chars < whole

\* C24: the rawHtml of every Section parse_html returns is at most
\* MAX_RAW_HTML_LENGTH characters long.
C24_RawHtmlBounded ==
    \A k \in 1..Len(Emitted) : StrLen(Emitted[k].rawHtml) <= MAX_RAW_HTML_LENGTH

TierOf(section) == section.rawHtml.source.tier
TwoSections == In(El("section"), Titled) \o In(El("section"), Titled)

\* C25: parse_html returns the landmark sections exactly when there are two
\* or more of them; otherwise the heading sections when there is one;
\* otherwise at most one section, made of the main element or of the body.
\* Two <section> elements side by side, each with a heading and a paragraph,
\* give exactly these two landmark sections.
C25_TierSelection ==
    Called("parse_html") =>
        LET by_landmarks == group_by_landmarks(arg.soup, arg.url)
            by_headings == group_by_headings(arg.soup, arg.url)
            out == ret.value
        IN  /\ Len(by_landmarks) >= 2 => out = by_landmarks
            /\ Len(by_landmarks) < 2 =>
                   \A k \in 1..Len(out) : TierOf(out[k]) # "landmark"
            /\ Len(by_landmarks) < 2 /\ Len(by_headings) > 0 => out = by_headings
            /\ Len(by_landmarks) < 2 /\ Len(by_headings) = 0 =>
                   /\ Len(out) <= 1
                   /\ \A k \in 1..Len(out) :
                        /\ TierOf(out[k]) = "fallback"
                        /\ LET at == out[k].rawHtml.source.at
                           IN  at = 0 \/ arg.soup[at].tag = "main"
            /\ arg.soup = TwoSections =>
                   /\ Len(out) = 2
                   /\ \A k \in 1..2 : TierOf(out[k]) = "landmark"
                   /\ out[1].rawHtml.source.at = 1
                   /\ out[2].rawHtml.source.at = 4

\* the two <section> elements came back as two landmark sections
C25_Witness ==
    /\ Called("parse_html")
    /\ arg.soup = TwoSections
    /\ Len(ret.value) = 2
    /\ ret.value[1].id = <<"section", "-", 0>>
    /\ ret.value[2].id = <<"section", "-", 1>>

\* C26: a landmark section is made only of a top-level landmark: the element
\* of no returned landmark section lies inside a header, nav, main, section,
\* article, aside or footer.
C26_TopLevelLandmarksOnly ==
    Called("parse_html") =>
        \A k \in 1..Len(ret.value) :
            TierOf(ret.value[k]) = "landmark" =>
                \A j \in Ancestors(arg.soup, ret.value[k].rawHtml.source.at) :
                    arg.soup[j].tag \notin LandmarkTags

\* C27: the ids of the sections of one result are pairwise different, for a
\* single page in each tier and for the sections gathered from several
\* snapshots.
C27_SectionIdsUnique ==
    NoDuplicates([k \in 1..Len(Emitted) |-> Emitted[k].id])

\* three snapshots of two landmark sections each gave six sections
C27_Witness ==
    /\ Called("scrape_dynamic")
    /\ arg.html_contents = <<TwoSections, TwoSections, TwoSections>>
    /\ Len(ret.value) = 6
    /\ ret.value[2].id = <<"section", "-", 1, "-p", 0>>
    /\ ret.value[3].id = <<"section", "-", 0, "-p", 1>>

\* ------------------------------------------------------------------------
\* Properties of scrape_static
\* ------------------------------------------------------------------------
StaticReported(message) ==
    \E k \in 1..Len(static_errors) : static_errors[k].message = message

\* C37: when the static fetch timed out scrape_static returns no result and
\* asks for a render; on an HTTP error status and on any other transport error
\* it returns no result and does not ask for a render; a result is never
\* returned together with the request for a render.
C37_StaticFailureSignals ==
    StaticInvoked =>
        /\ StaticReported("timeout") => static_result = None /\ needs_js
        /\ StaticReported("http_status") => static_result = None /\ ~needs_js
        /\ StaticReported("request_error") => static_result = None /\ ~needs_js
        /\ ~(static_result # None /\ needs_js)

\* the static fetch met an HTTP error status and handed back nothing, with
\* no request for a render
C37_Witness ==
    /\ pc = "after_static"
    /\ static_errors = <<ScrapeError("http_status", "static")>>
    /\ static_html = None
    /\ static_result = None
    /\ ~needs_js

\* the load-more clicks the call has recorded, by the attempt they name
LoadMoreClicks == SelectSeq(AllClicks, LAMBDA c : c.kind = "load_more")

\* C35: try_click_load_more clicks at most once per attempt, so at most
\* MAX_INTERACTION_DEPTH times in all, also when a browser call raises after
\* a click; and it returns at the end of the first attempt in which no
\* control was clicked.
C35_OneClickPerAttempt ==
    /\ [](/\ NoDuplicates(LoadMoreClicks)
          /\ Len(LoadMoreClicks) <= MAX_INTERACTION_DEPTH
          /\ acts.load_more <= MAX_INTERACTION_DEPTH)
    /\ [][(ipc = "load_more" /\ ipc' = "load_more"
             /\ sub'.attempt # sub.attempt) => Len(sub'.clicks) > Len(sub.clicks)
                                              \/ sub.clicked]_vars

TabClicks == SelectSeq(AllClicks, LAMBDA c : c.kind = "tabs")

\* C36: try_click_tabs clicks at most MAX_TABS_TO_CLICK elements over all
\* selector patterns: all its clicks are made under one pattern, and it moves
\* on to a later pattern only while no click has succeeded.
C36_TabClicksBounded ==
    /\ [](/\ acts.tab <= MAX_TABS_TO_CLICK
          /\ Len(TabClicks) = acts.tab
          /\ \A j, k \in 1..Len(TabClicks) : TabClicks[j].at = TabClicks[k].at)
    /\ [][(ipc \in {"tabs", "tab_click"} /\ ipc' \in {"tabs", "tab_click"}
             /\ sub'.selector # sub.selector) => sub'.clicks = <<>>]_vars

\* the first pattern matched nothing that could be clicked, the second
\* matched more than MAX_TABS_TO_CLICK elements: five were clicked under it
\* and the call returned without trying the third
C36_Witness ==
    /\ Returned
    /\ hi.strategy = "tabs"
    /\ acts.tab = MAX_TABS_TO_CLICK
    /\ Len(hi.clicks) = MAX_TABS_TO_CLICK
    /\ hi.clicks[1].at = TAB_SELECTORS[2]

Paginating == ipc = "pagination"
Advanced == Len(sub'.pages_visited) > Len(sub.pages_visited)

\* C32: try_pagination captures the starting page first and then advances,
\* recording a new page URL together with one snapshot of that page, only
\* when a click moved the page to a URL it had not visited; it returns after
\* the first attempt without such a move, and it records at most
\* MAX_INTERACTION_DEPTH pages.
C32_PaginationAdvances ==
    /\ [](acts.hop < MAX_INTERACTION_DEPTH)
    /\ [](Paginating =>
            /\ Len(sub.pages_visited) <= MAX_INTERACTION_DEPTH
            /\ NoDuplicates(sub.pages_visited)
            /\ sub.html_contents =
                 [k \in 1..Len(sub.pages_visited) |-> Captured(sub.pages_visited[k])])
    /\ [][(Paginating /\ ipc' = "pagination") =>
            /\ Advanced =>
                 /\ cur_url' # cur_url
                 /\ sub'.pages_visited = Append(sub.pages_visited, cur_url')
            /\ sub'.attempt # sub.attempt => sub.clicked \/ Advanced]_vars

\* C34: handle_interactions captures no page twice: when it returns, under
\* every strategy, html_contents holds at most as many snapshots as pages
\* holds URLs, and no snapshot appears twice.
C34_NoPageCapturedTwice ==
    Returned =>
        /\ Len(hi.html_contents) <= Len(hi.pages)
        /\ NoDuplicates(hi.html_contents)

\* dynamic.py line 119: the URL given to the sections of snapshot i (from 0)
PageUrl(visited, final_url, i) ==
    IF i < Len(visited) THEN visited[i + 1] ELSE final_url

\* C33: in a multi-page result the sections parsed from the i-th snapshot
\* carry the URL of the page that snapshot was captured from, also when a
\* scroll moved the page before pagination started and when a capture failed.
C33_SnapshotAttribution ==
    Returned =>
        \A i \in 0..(Len(hi.html_contents) - 1) :
            PageUrl(hi.pages, cur_url, i) = hi.html_contents[i + 1].content

\* ------------------------------------------------------------------------
\* Two scrape_url invocations on one event loop
\* ------------------------------------------------------------------------
\* A coroutine runs from one `await` to the next without interruption; at an
\* await the event loop may resume the other one.  A frame holds the locals of
\* one invocation of scrape_url and of the scrape_static / scrape_dynamic it
\* awaits; neither scraper.py nor its callees keep a module-level object.
Tasks == {1, 2}

\* the arguments of one invocation and what the outside world answers to it
ScrapeCall(u, enable, robots, fetch, m, goto, parse) ==
    [url |-> u, enable_interactions |-> enable, robots |-> robots,
     fetch |-> fetch, markup |-> m, goto |-> goto, parse |-> parse]

\* scraper.py line 25-27, dynamic.py line 44-45: nothing is bound yet
NewFrame ==
    [pc |-> "validate", errors |-> <<>>, static_result |-> None,
     needs_js |-> FALSE, dyn_enable |-> FALSE, dyn_errors |-> <<>>,
     visited |-> <<>>, dynamic_result |-> None, result |-> None]

\* a `return` of scrape_url
Finish(f, r) == [f EXCEPT !.pc = "done", !.result = r]

\* dynamic.py line 29-58: scrape_dynamic binds its own lists and suspends
\* while the browser is launched and page.goto is under way
EnterDynamic(f, enable) ==
    [f EXCEPT !.pc = "goto", !.dyn_enable = enable, !.dyn_errors = <<>>,
              !.visited = <<>>]

\* scraper.py line 37-43: up to `await check_robots_txt(url)`
FrameValidate(f, c) ==
    LET v == validate_url(c.url) IN
      IF ~v.ok
      THEN Finish(f, ErrorResult(c.url, <<ScrapeError(v.msg, "validation")>>))
      ELSE [f EXCEPT !.pc = "robots"]

\* scraper.py line 43-58: the robots verdict arrives; up to the next await
FrameRobots(f, c) ==
    LET gate == RobotsGate(c.url, check_robots_txt(c.url, c.robots))
        g == [f EXCEPT !.errors = <<>>]
    IN  IF gate.returns THEN Finish(f, gate.value)
        ELSE IF c.enable_interactions THEN EnterDynamic(g, TRUE)
        ELSE [g EXCEPT !.pc = "static"]

\* scraper.py line 55 and line 74-87
FrameReturn(f, c) ==
    Finish(f, IF c.enable_interactions
              THEN DirectReturn(c.url, f.dynamic_result, f.errors)
              ELSE FallbackReturn(c.url, f.dynamic_result, f.static_result,
                                  f.errors))

\* scraper.py line 58-72: scrape_static returned; up to the next await
FrameStatic(f, c) ==
    LET r == scrape_static(c.fetch, c.markup, c.url, "none", 1)
        gate == StaticGate(r.result, r.needs_js)
        g == [f EXCEPT !.static_result = r.result, !.needs_js = r.needs_js]
    IN  IF gate.returns THEN Finish(g, gate.value)
        ELSE EnterDynamic([g EXCEPT !.errors = FallbackErrors(f.errors)],
                          FallbackEnable(r.needs_js))

\* dynamic.py line 59-79 (and line 144-155 when page.goto raised)
FrameGoto(f, c) ==
    LET e == IF c.goto = "timeout" THEN GotoTimeout(f.dyn_errors)
             ELSE IF c.goto = "not_ok" THEN GotoNotOk(f.dyn_errors)
             ELSE [errors |-> f.dyn_errors, continue |-> c.goto = "ok"]
    IN  IF e.continue
        THEN [f EXCEPT !.pc = "render", !.dyn_errors = e.errors,
                       !.visited = Append(f.visited, c.url)]
        ELSE FrameReturn(
               [f EXCEPT !.dyn_errors =
                           Append(@, ScrapeError("dynamic_error", "dynamic")),
                         !.dynamic_result = None], c)

\* dynamic.py line 81-155, then scraper.py line 55 / 74-87
FrameRender(f, c) ==
    IF c.parse = "ok"
    THEN LET res == NoInteractions
             visited == Get(res, "pages", <<c.url>>)
         IN  FrameReturn(
               [f EXCEPT !.visited = visited,
                         !.dynamic_result =
                            DynamicResult(f.dyn_enable, res, visited, Rendered,
                                          c.url, f.dyn_errors, 1)], c)
    ELSE FrameReturn(
           [f EXCEPT !.dyn_errors =
                       Append(@, ScrapeError("dynamic_error", "dynamic")),
                     !.dynamic_result = None], c)

\* one invocation run alone: from await to await until it returns
FrameStep(f, c) ==
    IF f.pc = "validate" THEN FrameValidate(f, c)
    ELSE IF f.pc = "robots" THEN FrameRobots(f, c)
    ELSE IF f.pc = "static" THEN FrameStatic(f, c)
    ELSE IF f.pc = "goto" THEN FrameGoto(f, c)
    ELSE FrameRender(f, c)

RECURSIVE RunAlone(_, _)
RunAlone(f, c) == IF f.pc = "done" THEN f ELSE RunAlone(FrameStep(f, c), c)

BindMutantModuleLevel(fs, t, f) ==
    [u \in DOMAIN fs |-> IF u = t THEN f ELSE [fs[u] EXCEPT !.errors = f.errors]]

\* scraper.py line 49 and 13-22, dynamic.py line 44-45: every name a step
\* assigns is a local of the invocation that runs it, and every list and
\* result it changes was built by that invocation
Bind(fs, t, f) == [fs EXCEPT ![t] = f]

\* what the two requests ask for and are answered
SiteA == HTTP \o <<"a">>
Allowed == [kind |-> "status", status |-> 404, can_fetch |-> TRUE]
Disallowed == [kind |-> "status", status |-> 200, can_fetch |-> FALSE]
Plain == Markup("plain", FALSE, FALSE, 1, FALSE, 3000, 3200, TRUE)
Thin == Markup("thin", FALSE, FALSE, 1, FALSE, 100, 400, TRUE)

ScrapeCalls ==
    { ScrapeCall(<<>>, FALSE, Allowed, "ok", Plain, "ok", "ok"),
      ScrapeCall(SiteA, FALSE, Disallowed, "ok", Plain, "ok", "ok"),
      ScrapeCall(SiteA, TRUE, Allowed, "ok", Plain, "ok", "ok"),
      ScrapeCall(SiteA, TRUE, Allowed, "ok", Plain, "timeout", "fail"),
      ScrapeCall(SiteA, FALSE, Allowed, "ok", Plain, "ok", "ok"),
      ScrapeCall(SiteA, FALSE, Allowed, "ok", Thin, "not_ok", "ok"),
      ScrapeCall(SiteA, FALSE, Allowed, "http_error", Plain, "error", "ok"),
      ScrapeCall(SiteA, FALSE, Allowed, "timeout", Plain, "timeout", "ok") }

InitConcurrent ==
    /\ NoScrape
    /\ NoInteraction
    /\ arg \in { [fn |-> "scrape_url", calls |-> <<a, b>>] :
                   a \in ScrapeCalls, b \in ScrapeCalls }
    /\ ret = None
    /\ frames = [t \in Tasks |-> NewFrame]

\* the event loop resumes invocation t, suspended at `from`
Resume(t, from, Advance(_, _)) ==
    /\ pc = "idle"
    /\ frames[t].pc = from
    /\ frames' = Bind(frames, t, Advance(frames[t], arg.calls[t]))
    /\ UNCHANGED << arg, ret, ixVars, scrapeVars >>

RunValidate == \E t \in Tasks : Resume(t, "validate", FrameValidate)
RunRobots == \E t \in Tasks : Resume(t, "robots", FrameRobots)
RunStatic == \E t \in Tasks : Resume(t, "static", FrameStatic)
RunGoto == \E t \in Tasks : Resume(t, "goto", FrameGoto)
RunRender == \E t \in Tasks : Resume(t, "render", FrameRender)

NextConcurrent ==
    \/ RunValidate
    \/ RunRobots
    \/ RunStatic
    \/ RunGoto
    \/ RunRender

SpecConcurrent == InitConcurrent /\ [][NextConcurrent]_vars

============================================================================
